---- MODULE Spec2Model ----
(***************************************************************************)
(* Model of snap-ql's persistent state layer (src/src/main/lib/state.ts):  *)
(* the per-connection stores under connections/<name>/ (settings.json,     *)
(* history.json, favorites.json) and the global settings.json, as the      *)
(* file-system state they leave behind, one action per exported function.  *)
(*                                                                         *)
(* The specifications share the variables:                                *)
(*   SpecStore    connection CRUD, history and favorites, two names        *)
(*   SpecHistory  the history collection driven past its cap of 20         *)
(*   SpecGlobal   the global settings getters and setters                  *)
(*   SpecRace     two overlapping read-modify-write calls on one document  *)
(*   SpecMigrate  the single-connection layout and its history migration   *)
(*   SpecEditor   the renderer running queries on the selected connection  *)
(*   SpecDispatch the database module's calls, one driver step at a time   *)
(*   SpecSchema   getDatabaseSchema's fold of the catalog rows             *)
(*   SpecLoad     the renderer hook loading a connection's lists           *)
(***************************************************************************)
EXTENDS Naturals, Sequences, FiniteSets, TLC

VARIABLES
    dirs,        \* names n for which the directory connections/<n>/ exists
    settings,    \* n -> connections/<n>/settings.json
    history,     \* n -> connections/<n>/history.json
    favorites,   \* n -> connections/<n>/favorites.json
    gfile,       \* <root>/settings.json
    defaults,    \* the module-level object defaultGlobalSettings
    last,        \* the call that ran last: its name, arguments and outcome
    scenario,    \* progress of create / delete / failed get / create on one name
    calls,       \* number of calls made so far (bounded)
    adds,        \* n -> number of entries appended to n's history (SpecHistory),
                 \* added to n's favorites (SpecFavorites)
    edits,       \* number of edits made to the files from outside (bounded)
    pc,          \* SpecRace: each in-flight call's position
    loc,         \* SpecRace: each in-flight call's local variables
    legacy,      \* SpecMigrate: the single-connection layout's files
    ui,          \* SpecEditor, SpecLoad: the renderer's state
    db           \* SpecDispatch, SpecSchema: the database clients and the call in flight

vars == <<dirs, settings, history, favorites, gfile, defaults, last, scenario,
          calls, adds, edits, pc, loc, legacy, ui, db>>

storeVars == <<dirs, settings, history, favorites>>
globalVars == <<gfile, defaults>>
raceVars == <<pc, loc>>

(***************************************************************************)
(* JSON values.  A property of an object is a string, or one of three      *)
(* tokens: the key is not there, the key is there with the value           *)
(* undefined (in memory only: writeJson drops it), or the value is of a    *)
(* type the schema rejects.                                                *)
(***************************************************************************)
NoKey == "<no-key>"
Undef == "<undefined>"
Bad == "<not-a-string>"

IsString(v) == v \notin {NoKey, Undef, Bad}
IsOptionalString(v) == v \in {NoKey, Undef} \/ IsString(v)

\* JSON.stringify of a property: undefined is not written.
Stringify(v) == IF v = Undef THEN NoKey ELSE v

Min(a, b) == IF a < b THEN a ELSE b

(***************************************************************************)
(* Files.  kind is "missing" (no such file), "garbage" (readJson throws)   *)
(* or "json" (readJson returns val).                                       *)
(***************************************************************************)
NoSettings == [connectionString |-> NoKey, promptExtension |-> NoKey]

MissingSettingsFile == [kind |-> "missing", val |-> NoSettings]
GarbageSettingsFile == [kind |-> "garbage", val |-> NoSettings]
\* The settings document written without its promptExtension.
SettingsFile_DropsPrompt(s) ==
    [kind |-> "json",
     val |-> [connectionString |-> Stringify(s.connectionString),
              promptExtension |-> NoKey]]

SettingsFile(s) ==
    [kind |-> "json",
     val |-> [connectionString |-> Stringify(s.connectionString),
              promptExtension |-> Stringify(s.promptExtension)]]

MissingListFile == [kind |-> "missing", val |-> <<>>]
GarbageListFile == [kind |-> "garbage", val |-> <<>>]

EntryFields == {"id", "query", "results", "graph", "timestamp"}

StringifyEntry(e) == [k \in EntryFields |-> Stringify(e[k])]
ListFile(l) == [kind |-> "json", val |-> [i \in 1..Len(l) |-> StringifyEntry(l[i])]]

\* queryHistorySchema and favoritesSchema: the same shape.
queryHistorySchema(e) ==
    /\ IsString(e.id)
    /\ IsString(e.query)
    /\ IsString(e.results)
    /\ IsOptionalString(e.graph)
    /\ IsString(e.timestamp)

favoritesSchema(e) == queryHistorySchema(e)

connectionSettingsSchema(s) ==
    /\ IsString(s.connectionString)
    /\ IsOptionalString(s.promptExtension)

(***************************************************************************)
(* Strings whose characters matter (String.prototype.trim, split and       *)
(* includes read them) are spelled out character by character.             *)
(***************************************************************************)
PgString == "postgresql://u:p@h:5432/d"
MyString == "mysql://u:p@h/d"
LiteString == "sqlite://f.db"
AfterString == "db://mysql"
BothString == "mysql+postgres://h"
BareString == "postgres"

Chars(s) ==
    CASE s = PgString ->
           <<"p","o","s","t","g","r","e","s","q","l",":","/","/","u",":","p",
             "@","h",":","5","4","3","2","/","d">>
      [] s = MyString ->
           <<"m","y","s","q","l",":","/","/","u",":","p","@","h","/","d">>
      [] s = LiteString ->
           <<"s","q","l","i","t","e",":","/","/","f",".","d","b">>
      [] s = AfterString -> <<"d","b",":","/","/","m","y","s","q","l">>
      [] s = BothString ->
           <<"m","y","s","q","l","+","p","o","s","t","g","r","e","s",":","/","/","h">>
      [] s = BareString -> <<"p","o","s","t","g","r","e","s">>
      [] s = "" -> <<>>
      [] s = "   " -> <<" "," "," ">>
      [] s = " metric " -> <<" ","m","e","t","r","i","c"," ">>
      [] s = "metric" -> <<"m","e","t","r","i","c">>
      [] OTHER -> <<s>>

KnownStrings ==
    {PgString, MyString, LiteString, AfterString, BothString, BareString,
     "", "   ", " metric ", "metric"}

\* The string with the given characters.
Str(cs) == CHOOSE s \in KnownStrings : Chars(s) = cs

\* String.prototype.trim on a character sequence.
RECURSIVE TrimLeft(_)
TrimLeft(cs) ==
    IF cs # <<>> /\ Head(cs) = " " THEN TrimLeft(Tail(cs)) ELSE cs

RECURSIVE TrimRight(_)
TrimRight(cs) ==
    IF cs # <<>> /\ cs[Len(cs)] = " "
    THEN TrimRight(SubSeq(cs, 1, Len(cs) - 1))
    ELSE cs

Trim(s) == Str(TrimRight(TrimLeft(Chars(s))))

\* cs.includes(w)
Includes(cs, w) ==
    \E i \in 1..(Len(cs) + 1 - Len(w)) : SubSeq(cs, i, i + Len(w) - 1) = w

\* connectionString.split('//')[0]: the characters before the first "//".
FirstPart(cs) ==
    LET hits == {i \in 1..(Len(cs) - 1) : cs[i] = "/" /\ cs[i + 1] = "/"}
    IN  IF hits = {} THEN cs
        ELSE SubSeq(cs, 1, (CHOOSE i \in hits : \A j \in hits : i <= j) - 1)

\* parseConnectionString testing the whole string instead of parts[0].
parseConnectionString_WholeString(s) ==
    IF Includes(Chars(s), <<"p","o","s","t","g","r","e","s">>) THEN "postgres"
    ELSE IF Includes(Chars(s), <<"m","y","s","q","l">>) THEN "mysql"
    ELSE "null"

parseConnectionString(s) ==
    LET firstPart == FirstPart(Chars(s))
    IN  IF Includes(firstPart, <<"p","o","s","t","g","r","e","s">>) THEN "postgres"
        ELSE IF Includes(firstPart, <<"m","y","s","q","l">>) THEN "mysql"
        ELSE "null"

(***************************************************************************)
(* The connection store's functions, as functions of the files they read.  *)
(***************************************************************************)
Names == {"a", "b"}

\* fs.ensureDir(connectionDir(name)), which every *Path helper runs.
ensureDir(d, name) == d \cup {name}

connectionSettingsPath(d, name) == ensureDir(d, name)
connectionHistoryPath(d, name) == ensureDir(d, name)
connectionFavoritesPath(d, name) == ensureDir(d, name)

\* getConnectionSettings' try block: readJson, then the schema's parse.
SettingsReadable(f) == f.kind = "json" /\ connectionSettingsSchema(f.val)

\* getConnectionHistory's result for the file f: [] when the file is missing,
\* when readJson throws and when the array fails the schema.
ReadList(f) ==
    IF f.kind = "json" /\ \A i \in 1..Len(f.val) : queryHistorySchema(f.val[i])
    THEN f.val
    ELSE <<>>

\* listConnections: the directories that hold a settings.json.
listConnections == {n \in dirs : settings[n].kind # "missing"}

\* The spread with its operands swapped: { ...updates, ...entry }.
Spread_Swapped(entry, updates) ==
    [k \in DOMAIN entry |-> IF entry[k] # NoKey THEN entry[k] ELSE updates[k]]

\* { ...entry, ...updates }
Spread(entry, updates) ==
    [k \in DOMAIN entry |-> IF updates[k] # NoKey THEN updates[k] ELSE entry[k]]

\* currentHistory.slice(0, 19)
HistoryKeep == 19
Slice(l, n) == SubSeq(l, 1, Min(n, Len(l)))

\* The append without the slice: nothing is evicted.
AddHistoryResult_NoEviction(cur, query) == <<query>> \o cur

\* The append keeping 20 old entries instead of 19.
AddHistoryResult_Keep20(cur, query) == <<query>> \o Slice(cur, HistoryKeep + 1)

AddHistoryResult(cur, query) == <<query>> \o Slice(cur, HistoryKeep)

\* The map replacing the matching entry by the updates instead of merging.
MapUpdate_Replace(cur, id, updates) ==
    [i \in 1..Len(cur) |-> IF cur[i].id = id THEN updates ELSE cur[i]]

MapUpdate(cur, id, updates) ==
    [i \in 1..Len(cur) |-> IF cur[i].id = id THEN Spread(cur[i], updates) ELSE cur[i]]

\* The favorites capped the way the history is.
AddFavoriteResult_Capped(cur, favorite) == <<favorite>> \o Slice(cur, HistoryKeep)

AddFavoriteResult(cur, favorite) == <<favorite>> \o cur

\* The filter with its test inverted.
FilterOut_Inverted(cur, id) == SelectSeq(cur, LAMBDA fav : fav.id = id)

FilterOut(cur, id) == SelectSeq(cur, LAMBDA fav : fav.id # id)

(***************************************************************************)
(* The record of the call that ran last.                                   *)
(***************************************************************************)
NoEntry == [k \in EntryFields |-> NoKey]

GlobalFields ==
    {"aiProvider", "openAiKey", "openAiBaseUrl", "openAiModel", "claudeApiKey",
     "claudeModel", "connectionString"}
NoGlobal == [k \in GlobalFields |-> NoKey]

Call(op, name, result) ==
    [op |-> op, name |-> name, result |-> result, value |-> NoKey, list |-> <<>>,
     settings |-> NoSettings, entry |-> NoEntry, id |-> NoKey, global |-> NoGlobal]

NoCall == Call("none", "", "ok")

\* Where the sequence createConnection(x), ..., deleteConnection(x),
\* getConnection(x) failing, createConnection(x) stands after the call c.
\* phase 1: x created; 2: x then deleted; 3: the get that followed failed with
\* NotFound; 4: createConnection(x) was called right after it.  phase 5: the
\* call was an editConnection whose settings lack the promptExtension that
\* was stored.
NoScenario == [name |-> "", phase |-> 0]

Track(sc, c) ==
    CASE sc.phase = 3 /\ c.op = "createConnection" /\ c.name = sc.name ->
           [name |-> c.name, phase |-> 4]
      [] sc.phase = 2 /\ c.op = "getConnection" /\ c.name = sc.name
                      /\ c.result = "NotFound" ->
           [name |-> c.name, phase |-> 3]
      [] sc.phase = 1 /\ c.op = "deleteConnection" /\ c.name = sc.name
                      /\ c.result = "ok" ->
           [name |-> c.name, phase |-> 2]
      [] c.op = "createConnection" /\ c.result = "ok" ->
           [name |-> c.name, phase |-> 1]
      [] c.op = "editConnection" /\ c.result = "ok"
                      /\ SettingsReadable(settings[c.name])
                      /\ IsString(settings[c.name].val.promptExtension)
                      /\ c.settings.promptExtension = NoKey ->
           [name |-> c.name, phase |-> 5]
      [] sc.phase = 1 /\ c.op \notin {"externalEdit", "deleteConnection", "editConnection"} ->
           sc
      [] OTHER -> NoScenario

\* Bounds: the calls of one behaviour, and the outside edits among them.
MaxCalls == 5
MaxEdits == 1

\* What every call of the connection store leaves alone.
StoreFrame == UNCHANGED <<gfile, defaults, pc, loc, legacy, ui, db>>

Done(c) ==
    /\ last' = c
    /\ scenario' = Track(scenario, c)
    /\ StoreFrame

(***************************************************************************)
(* Inputs.                                                                 *)
(***************************************************************************)
SettingsInputs ==
    {[connectionString |-> PgString, promptExtension |-> NoKey],
     [connectionString |-> MyString, promptExtension |-> "metric"]}

EntryIds == {"q1", "q2"}
Entry(id, graph) ==
    [id |-> id, query |-> "SELECT 1", results |-> "rows", graph |-> graph,
     timestamp |-> "2025-01-01T00:00:00.000Z"]
EntryInputs == {Entry("q1", NoKey), Entry("q2", "graph1")}

Partial(k, v) == [f \in EntryFields |-> IF f = k THEN v ELSE NoKey]
UpdateInputs == {Partial("graph", "graph2")}


(***************************************************************************)
(* Connection management (state.ts 226-300).                               *)
(***************************************************************************)
\* createConnection without its existence check.
createConnection_NoExistenceCheck(name, connectionMetadata) ==
    /\ dirs' = ensureDir(dirs, name)
    /\ settings' = [settings EXCEPT ![name] = SettingsFile(connectionMetadata)]
    /\ history' = [history EXCEPT ![name] = ListFile(<<>>)]
    /\ favorites' = [favorites EXCEPT ![name] = ListFile(<<>>)]
    /\ Done([Call("createConnection", name, "ok")
               EXCEPT !.settings = connectionMetadata])

createConnection(name, connectionMetadata) ==
    IF name \in dirs
    THEN /\ UNCHANGED storeVars
         /\ Done(Call("createConnection", name, "AlreadyExists"))
    ELSE /\ dirs' = ensureDir(dirs, name)
         /\ settings' = [settings EXCEPT ![name] = SettingsFile(connectionMetadata)]
         /\ history' = [history EXCEPT ![name] = ListFile(<<>>)]
         /\ favorites' = [favorites EXCEPT ![name] = ListFile(<<>>)]
         /\ Done([Call("createConnection", name, "ok")
                    EXCEPT !.settings = connectionMetadata])

\* editConnection merging the new settings into the stored ones.
editConnection_Merge(name, connectionMetadata) ==
    IF name \notin dirs
    THEN /\ UNCHANGED storeVars
         /\ Done(Call("editConnection", name, "NotFound"))
    ELSE /\ dirs' = connectionSettingsPath(dirs, name)
         /\ settings' = [settings EXCEPT ![name] =
                SettingsFile(Spread(settings[name].val, connectionMetadata))]
         /\ UNCHANGED <<history, favorites>>
         /\ Done([Call("editConnection", name, "ok")
                    EXCEPT !.settings = connectionMetadata])

editConnection(name, connectionMetadata) ==
    IF name \notin dirs
    THEN /\ UNCHANGED storeVars
         /\ Done(Call("editConnection", name, "NotFound"))
    ELSE /\ dirs' = connectionSettingsPath(dirs, name)
         /\ settings' = [settings EXCEPT ![name] = SettingsFile(connectionMetadata)]
         /\ UNCHANGED <<history, favorites>>
         /\ Done([Call("editConnection", name, "ok")
                    EXCEPT !.settings = connectionMetadata])

deleteConnection(name) ==
    IF name \notin dirs
    THEN /\ UNCHANGED storeVars
         /\ Done(Call("deleteConnection", name, "NotFound"))
    ELSE /\ dirs' = dirs \ {name}
         /\ settings' = [settings EXCEPT ![name] = MissingSettingsFile]
         /\ history' = [history EXCEPT ![name] = MissingListFile]
         /\ favorites' = [favorites EXCEPT ![name] = MissingListFile]
         /\ Done(Call("deleteConnection", name, "ok"))

\* getConnectionSettings healing an unreadable document the way
\* getGlobalSettings does: a default is written and returned.
getConnectionSettings_SelfHealing(op, name, okCall) ==
    /\ dirs' = connectionSettingsPath(dirs, name)
    /\ UNCHANGED <<history, favorites>>
    /\ IF SettingsReadable(settings[name])
       THEN UNCHANGED settings /\ Done(okCall)
       ELSE /\ settings' = [settings EXCEPT ![name] =
                  SettingsFile([NoSettings EXCEPT !.connectionString = ""])]
            /\ Done(Call(op, name, "ok"))

\* getConnectionSettings (129-144) for the caller op, which returns okCall
\* when the settings document was read.
getConnectionSettings(op, name, okCall) ==
    /\ dirs' = connectionSettingsPath(dirs, name)
    /\ UNCHANGED <<settings, history, favorites>>
    /\ IF SettingsReadable(settings[name])
       THEN Done(okCall)
       ELSE Done(Call(op, name, "NotFound"))

getConnection(name) ==
    getConnectionSettings("getConnection", name,
        [Call("getConnection", name, "ok") EXCEPT !.settings = settings[name].val])

getConnectionStringForConnection(name) ==
    getConnectionSettings("getConnectionStringForConnection", name,
        [Call("getConnectionStringForConnection", name, "ok")
           EXCEPT !.value = settings[name].val.connectionString])

getConnectionPromptExtension(name) ==
    getConnectionSettings("getConnectionPromptExtension", name,
        [Call("getConnectionPromptExtension", name, "ok")
           EXCEPT !.value = settings[name].val.promptExtension])

getConnectionDatabaseType(name) ==
    getConnectionSettings("getConnectionDatabaseType", name,
        [Call("getConnectionDatabaseType", name, "ok")
           EXCEPT !.value = parseConnectionString(settings[name].val.connectionString)])

PromptInputs == {"", "   ", " metric ", "metric"}

\* setConnectionPromptExtension storing the trimmed string even when empty.
setConnectionPromptExtension_StoresEmpty(name, promptExtension) ==
    /\ dirs' = connectionSettingsPath(dirs, name)
    /\ UNCHANGED <<history, favorites>>
    /\ IF SettingsReadable(settings[name])
       THEN /\ settings' = [settings EXCEPT ![name] =
                  SettingsFile([settings[name].val
                                  EXCEPT !.promptExtension = Trim(promptExtension)])]
            /\ Done([Call("setConnectionPromptExtension", name, "ok")
                       EXCEPT !.value = promptExtension])
       ELSE /\ UNCHANGED settings
            /\ Done([Call("setConnectionPromptExtension", name, "NotFound")
                       EXCEPT !.value = promptExtension])

setConnectionPromptExtension(name, promptExtension) ==
    /\ dirs' = connectionSettingsPath(dirs, name)
    /\ UNCHANGED <<history, favorites>>
    /\ IF SettingsReadable(settings[name])
       THEN LET trimmed == Trim(promptExtension)
                val == IF trimmed = "" THEN Undef ELSE trimmed
            IN  /\ settings' = [settings EXCEPT ![name] =
                       SettingsFile([settings[name].val EXCEPT !.promptExtension = val])]
                /\ Done([Call("setConnectionPromptExtension", name, "ok")
                           EXCEPT !.value = promptExtension])
       ELSE /\ UNCHANGED settings
            /\ Done([Call("setConnectionPromptExtension", name, "NotFound")
                       EXCEPT !.value = promptExtension])

(***************************************************************************)
(* History and favorites (state.ts 302-404).                               *)
(***************************************************************************)
getConnectionHistory(name) ==
    /\ dirs' = connectionHistoryPath(dirs, name)
    /\ UNCHANGED <<settings, history, favorites>>
    /\ Done([Call("getConnectionHistory", name, "ok")
               EXCEPT !.list = ReadList(history[name])])

getConnectionFavorites(name) ==
    /\ dirs' = connectionFavoritesPath(dirs, name)
    /\ UNCHANGED <<settings, history, favorites>>
    /\ Done([Call("getConnectionFavorites", name, "ok")
               EXCEPT !.list = ReadList(favorites[name])])

\* One history file shared by all connections.
setConnectionHistory_Shared(name, l) ==
    /\ dirs' = connectionHistoryPath(dirs, name)
    /\ history' = [n \in Names |-> ListFile(l)]
    /\ UNCHANGED <<settings, favorites>>

\* setConnectionHistory / setConnectionFavorites: writeJson of the whole array.
setConnectionHistory(name, l) ==
    /\ dirs' = connectionHistoryPath(dirs, name)
    /\ history' = [history EXCEPT ![name] = ListFile(l)]
    /\ UNCHANGED <<settings, favorites>>

setConnectionFavorites(name, l) ==
    /\ dirs' = connectionFavoritesPath(dirs, name)
    /\ favorites' = [favorites EXCEPT ![name] = ListFile(l)]
    /\ UNCHANGED <<settings, history>>

addQueryToConnectionHistory(name, query) ==
    /\ setConnectionHistory(name, AddHistoryResult(ReadList(history[name]), query))
    /\ Done([Call("addQueryToConnectionHistory", name, "ok") EXCEPT !.entry = query])

updateConnectionHistory(name, queryId, updates) ==
    /\ setConnectionHistory(name, MapUpdate(ReadList(history[name]), queryId, updates))
    /\ Done([Call("updateConnectionHistory", name, "ok")
               EXCEPT !.id = queryId, !.entry = updates])

\* Favoriting as a move: the entry leaves the history.
addConnectionFavorite_Moves(name, favorite) ==
    /\ dirs' = connectionFavoritesPath(dirs, name)
    /\ favorites' = [favorites EXCEPT ![name] =
           ListFile(AddFavoriteResult(ReadList(favorites[name]), favorite))]
    /\ history' = [history EXCEPT ![name] =
           ListFile(FilterOut(ReadList(history[name]), favorite.id))]
    /\ UNCHANGED settings
    /\ Done([Call("addConnectionFavorite", name, "ok") EXCEPT !.entry = favorite])

addConnectionFavorite(name, favorite) ==
    /\ setConnectionFavorites(name, AddFavoriteResult(ReadList(favorites[name]), favorite))
    /\ Done([Call("addConnectionFavorite", name, "ok") EXCEPT !.entry = favorite])

removeConnectionFavorite(name, favoriteId) ==
    /\ setConnectionFavorites(name, FilterOut(ReadList(favorites[name]), favoriteId))
    /\ Done([Call("removeConnectionFavorite", name, "ok") EXCEPT !.id = favoriteId])

updateConnectionFavorite(name, favoriteId, updates) ==
    /\ setConnectionFavorites(name, MapUpdate(ReadList(favorites[name]), favoriteId, updates))
    /\ Done([Call("updateConnectionFavorite", name, "ok")
               EXCEPT !.id = favoriteId, !.entry = updates])

(***************************************************************************)
(* The files are plain JSON in a folder the application's menu opens       *)
(* ("Open Settings Folder"): one of a connection's files is replaced from  *)
(* outside by text that is not JSON, or by JSON the schema rejects.        *)
(***************************************************************************)
BreakEntry(e) == [e EXCEPT !.timestamp = Bad]

BrokenList(f) ==
    IF f.kind = "json" /\ Len(f.val) > 0
    THEN {GarbageListFile, [f EXCEPT !.val[1] = BreakEntry(f.val[1])]}
    ELSE {GarbageListFile}

BrokenSettings(f) ==
    IF f.kind = "json"
    THEN {GarbageSettingsFile, [f EXCEPT !.val.connectionString = Bad],
          [f EXCEPT !.val.connectionString = NoKey]}
    ELSE {GarbageSettingsFile}

externalEdit(name) ==
    /\ name \in dirs
    /\ \/ /\ \E f \in BrokenSettings(settings[name]) :
                settings' = [settings EXCEPT ![name] = f]
          /\ UNCHANGED <<dirs, history, favorites>>
       \/ /\ \E f \in BrokenList(history[name]) :
                history' = [history EXCEPT ![name] = f]
          /\ UNCHANGED <<dirs, settings, favorites>>
       \/ /\ \E f \in BrokenList(favorites[name]) :
                favorites' = [favorites EXCEPT ![name] = f]
          /\ UNCHANGED <<dirs, settings, history>>
    /\ Done(Call("externalEdit", name, "ok"))

(***************************************************************************)
(* SpecStore: the connection store, one call at a time.                    *)
(***************************************************************************)
(***************************************************************************)
(* Global settings (state.ts 32-55, 97-127, 159-223).  The record's last   *)
(* field, connectionString, is not in globalSettingsSchema: it is the      *)
(* single-connection layout's field that setGlobalSettings' comment names. *)
(***************************************************************************)
SchemaFields == GlobalFields \ {"connectionString"}

MissingGlobalFile == [kind |-> "missing", val |-> NoGlobal]
GarbageGlobalFile == [kind |-> "garbage", val |-> NoGlobal]
GlobalFile(obj) == [kind |-> "json", val |-> [k \in GlobalFields |-> Stringify(obj[k])]]

globalSettingsSchema(v) ==
    /\ v.aiProvider \in {NoKey, Undef, "openai", "claude"}
    /\ \A k \in SchemaFields \ {"aiProvider"} : IsOptionalString(v[k])

\* The schema's parse keeps the schema's keys and drops the others.
ParseGlobal(v) == [k \in GlobalFields |-> IF k \in SchemaFields THEN v[k] ELSE NoKey]

defaultGlobalSettings ==
    [k \in GlobalFields |->
        IF k = "aiProvider" THEN "openai"
        ELSE IF k \in SchemaFields THEN Undef ELSE NoKey]

GlobalReadable(f) == f.kind = "json" /\ globalSettingsSchema(f.val)

\* getGlobalSettings: what it returns, and settings.json when it has returned.
\* The catch branch returns the object defaultGlobalSettings itself.
getGlobalSettings(f, d) == IF GlobalReadable(f) THEN ParseGlobal(f.val) ELSE d

\* getGlobalSettings returning the defaults without writing them.
GlobalFileAfterRead_NotPersisted(f, d) == f

GlobalFileAfterRead(f, d) == IF GlobalReadable(f) THEN f ELSE GlobalFile(d)

\* setGlobalSettings writing its argument alone.
setGlobalSettings_NoMerge(f, s) == GlobalFile(s)

\* setGlobalSettings: settings.json after the merge with what readJson gave.
setGlobalSettings(f, s) ==
    LET existingSettings == IF f.kind = "json" THEN f.val ELSE NoGlobal
    IN  GlobalFile(Spread(existingSettings, s))

InitGlobalIdle ==
    /\ gfile = MissingGlobalFile
    /\ defaults = defaultGlobalSettings
    /\ pc = <<>>
    /\ loc = <<>>
    /\ legacy = <<>>
    /\ ui = <<>>
    /\ db = <<>>

InitStore ==
    /\ dirs = {}
    /\ settings = [n \in Names |-> MissingSettingsFile]
    /\ history = [n \in Names |-> MissingListFile]
    /\ favorites = [n \in Names |-> MissingListFile]
    /\ last = NoCall
    /\ scenario = NoScenario
    /\ calls = 0
    /\ adds = [n \in Names |-> 0]
    /\ edits = 0
    /\ InitGlobalIdle

\* SpecStore drives one name; the files of both exist in the state.
StoreNames == {"a"}

\* One more call of the bounded behaviour.
StoreStep ==
    /\ calls < MaxCalls
    /\ calls' = calls + 1
    /\ UNCHANGED <<adds, edits>>

CreateConnection ==
    \E n \in StoreNames, m \in SettingsInputs :
        createConnection(n, m) /\ StoreStep

EditConnection ==
    \E n \in StoreNames, m \in SettingsInputs :
        editConnection(n, m) /\ StoreStep

DeleteConnection ==
    \E n \in StoreNames : deleteConnection(n) /\ StoreStep

GetConnection ==
    \E n \in StoreNames : getConnection(n) /\ StoreStep

GetConnectionStringForConnection ==
    \E n \in StoreNames : getConnectionStringForConnection(n) /\ StoreStep

GetConnectionPromptExtension ==
    \E n \in StoreNames : getConnectionPromptExtension(n) /\ StoreStep

GetConnectionDatabaseType ==
    \E n \in StoreNames : getConnectionDatabaseType(n) /\ StoreStep

SetConnectionPromptExtension ==
    \E n \in StoreNames, p \in PromptInputs :
        setConnectionPromptExtension(n, p) /\ StoreStep

GetConnectionHistory ==
    \E n \in StoreNames : getConnectionHistory(n) /\ StoreStep

GetConnectionFavorites ==
    \E n \in StoreNames : getConnectionFavorites(n) /\ StoreStep

AddQueryToConnectionHistory ==
    \E n \in StoreNames, e \in EntryInputs :
        addQueryToConnectionHistory(n, e) /\ StoreStep

UpdateConnectionHistory ==
    \E n \in StoreNames, id \in EntryIds, u \in UpdateInputs :
        updateConnectionHistory(n, id, u) /\ StoreStep

AddConnectionFavorite ==
    \E n \in StoreNames, e \in EntryInputs :
        addConnectionFavorite(n, e) /\ StoreStep

RemoveConnectionFavorite ==
    \E n \in StoreNames, id \in EntryIds :
        removeConnectionFavorite(n, id) /\ StoreStep

UpdateConnectionFavorite ==
    \E n \in StoreNames, id \in EntryIds, u \in UpdateInputs :
        updateConnectionFavorite(n, id, u) /\ StoreStep

ExternalEdit ==
    /\ edits < MaxEdits
    /\ \E n \in StoreNames : externalEdit(n)
    /\ calls < MaxCalls
    /\ calls' = calls + 1
    /\ edits' = edits + 1
    /\ UNCHANGED adds

NextStore ==
    \/ CreateConnection
    \/ EditConnection
    \/ DeleteConnection
    \/ GetConnection
    \/ GetConnectionStringForConnection
    \/ GetConnectionPromptExtension
    \/ GetConnectionDatabaseType
    \/ SetConnectionPromptExtension
    \/ GetConnectionHistory
    \/ GetConnectionFavorites
    \/ AddQueryToConnectionHistory
    \/ UpdateConnectionHistory
    \/ AddConnectionFavorite
    \/ RemoveConnectionFavorite
    \/ UpdateConnectionFavorite
    \/ ExternalEdit

SpecStore == InitStore /\ [][NextStore]_vars

(***************************************************************************)
(* Claims checked under SpecStore.  Every step of SpecStore is one call,   *)
(* and last' describes it.                                                 *)
(***************************************************************************)

\* C2: after createConnection(x), deleteConnection(x) and a getConnection(x)
\* that fails with NotFound, createConnection(x) succeeds and x's history and
\* favorites are empty.
C2_RecreateAfterDelete ==
    scenario.phase = 4 =>
        /\ last.result = "ok"
        /\ history[scenario.name] = ListFile(<<>>)
        /\ favorites[scenario.name] = ListFile(<<>>)

\* C3: createConnection on a name that listConnections returns fails with
\* AlreadyExists and leaves every file of the store as it was.
C3_CreateExistingWritesNothing ==
    [][(last'.op = "createConnection" /\ last'.name \in listConnections)
          => (last'.result = "AlreadyExists" /\ UNCHANGED storeVars)]_vars

C3_Witness ==
    /\ last.op = "createConnection"
    /\ last.result = "AlreadyExists"
    /\ last.name \in listConnections
    /\ ReadList(history[last.name]) # <<>>

\* C5: editConnection and deleteConnection on a name that listConnections
\* does not return fail with NotFound, and the name is still not a connection
\* afterwards.
C5_EditDeleteMissingNotFound ==
    [][(last'.op \in {"editConnection", "deleteConnection"}
          /\ last'.name \notin listConnections)
          => (last'.result = "NotFound" /\ last'.name \notin listConnections')]_vars

\* The file parses as JSON and z.array(schema).parse rejects it.
SchemaInvalid(f) ==
    f.kind = "json" /\ \E i \in 1..Len(f.val) : ~queryHistorySchema(f.val[i])

\* C7: a read of a history.json or favorites.json that fails validation
\* returns the empty sequence and leaves the empty sequence stored.
C7_InvalidListReadPersistsEmpty ==
    [][/\ (last'.op = "getConnectionHistory" /\ SchemaInvalid(history[last'.name]))
            => /\ last'.result = "ok"
               /\ last'.list = <<>>
               /\ history'[last'.name] = ListFile(<<>>)
       /\ (last'.op = "getConnectionFavorites" /\ SchemaInvalid(favorites[last'.name]))
            => /\ last'.result = "ok"
               /\ last'.list = <<>>
               /\ favorites'[last'.name] = ListFile(<<>>)]_vars

SettingsAccessors ==
    {"getConnection", "getConnectionStringForConnection",
     "getConnectionPromptExtension", "getConnectionDatabaseType"}

\* C8: getConnection and the accessors built on getConnectionSettings fail
\* with NotFound when the settings document is missing or fails the schema,
\* and write no settings document.
C8_UnreadableSettingsNotFound ==
    [][(last'.op \in SettingsAccessors /\ ~SettingsReadable(settings[last'.name]))
          => (last'.result = "NotFound" /\ settings' = settings)]_vars

C8_Witness ==
    /\ last.op \in SettingsAccessors
    /\ last.result = "NotFound"
    /\ settings[last.name].kind = "json"
    /\ ~connectionSettingsSchema(settings[last.name].val)

(***************************************************************************)
(* SpecHistory: connection "a" exists and its history is appended to past  *)
(* the cap, the way the callers do it: entry i of a connection carries the *)
(* id i.  Graph metadata is attached to entries in between, and a second   *)
(* connection's history is written alongside.                              *)
(***************************************************************************)
MaxAppends == 22
MaxAppendsOther == 1
MaxUpdates == 1

HistoryMax == 20

AppendBound(n) == IF n = "a" THEN MaxAppends ELSE MaxAppendsOther

NthEntry(i) ==
    [id |-> ToString(i), query |-> "SELECT 1", results |-> "rows", graph |-> NoKey,
     timestamp |-> "2025-01-01T00:00:00.000Z"]

InitHistory ==
    /\ dirs = {"a"}
    /\ settings = [n \in Names |->
          IF n = "a"
          THEN SettingsFile([connectionString |-> PgString, promptExtension |-> NoKey])
          ELSE MissingSettingsFile]
    /\ history = [n \in Names |-> IF n = "a" THEN ListFile(<<>>) ELSE MissingListFile]
    /\ favorites = [n \in Names |-> IF n = "a" THEN ListFile(<<>>) ELSE MissingListFile]
    /\ last = NoCall
    /\ scenario = NoScenario
    /\ calls = 0
    /\ adds = [n \in Names |-> 0]
    /\ edits = 0
    /\ InitGlobalIdle

AppendNext ==
    \E n \in Names :
        /\ adds[n] < AppendBound(n)
        /\ addQueryToConnectionHistory(n, NthEntry(adds[n] + 1))
        /\ adds' = [adds EXCEPT ![n] = adds[n] + 1]
        /\ UNCHANGED <<calls, edits>>

UpdateGraph ==
    \E n \in Names, i \in 1..MaxAppends :
        /\ calls < MaxUpdates
        /\ i <= adds[n] + 1
        /\ updateConnectionHistory(n, ToString(i), Partial("graph", "graph2"))
        /\ calls' = calls + 1
        /\ UNCHANGED <<adds, edits>>

ReadHistory ==
    \E n \in Names : getConnectionHistory(n) /\ UNCHANGED <<calls, adds, edits>>

NextHistory == AppendNext \/ UpdateGraph \/ ReadHistory

SpecHistory == InitHistory /\ [][NextHistory]_vars

\* C1: once anything was appended to a connection's history, the stored
\* history has at most 20 entries, through every later append and update.
C1_HistoryAtMost20 ==
    \A n \in Names :
        adds[n] > 0 => (history[n].kind = "json" /\ Len(history[n].val) <= HistoryMax)

C1_Witness ==
    /\ adds["a"] > HistoryMax
    /\ Len(history["a"].val) = HistoryMax
    /\ last.op = "updateConnectionHistory"
    /\ \E i \in 1..HistoryMax : history["a"].val[i].graph = "graph2"

\* C4: an append stores the new entry followed by the first min(|h|, 19)
\* entries of the history h stored before, in their order; and once more than
\* 20 entries were appended, getConnectionHistory returns the 20 newest,
\* entry N at index 0 down to entry N-19 at index 19.
C4_AppendKeepsNewest20 ==
    [][/\ last'.op = "addQueryToConnectionHistory" =>
            LET h == history[last'.name].val
                k == IF Len(h) < 19 THEN Len(h) ELSE 19
            IN  /\ history'[last'.name].kind = "json"
                /\ history'[last'.name].val = <<last'.entry>> \o SubSeq(h, 1, k)
       /\ (last'.op = "getConnectionHistory" /\ adds[last'.name] > 20) =>
            /\ Len(last'.list) = 20
            /\ \A i \in 1..20 :
                  last'.list[i].id = ToString(adds[last'.name] + 1 - i)]_vars

C4_Witness ==
    /\ last.op = "getConnectionHistory"
    /\ last.name = "a"
    /\ adds["a"] = 22
    /\ Len(last.list) = 20
    /\ last.list[1].id = "22"
    /\ last.list[20].id = "3"

(***************************************************************************)
(* SpecGlobal: the global settings' getters and setters, one call at a     *)
(* time, on a new installation or on a settings.json of the                *)
(* single-connection layout.                                               *)
(***************************************************************************)
MaxGlobalCalls == 4

AiProviders == {"openai", "claude"}
StringInputs == {"v1", "v2"}

LegacyGlobal ==
    [NoGlobal EXCEPT !.connectionString = PgString, !.openAiKey = "sk-old"]

GlobalFrame ==
    UNCHANGED <<dirs, settings, history, favorites, scenario, adds, pc, loc, legacy, ui, db>>

GlobalStep ==
    /\ calls < MaxGlobalCalls
    /\ calls' = calls + 1
    /\ UNCHANGED edits
    /\ GlobalFrame

\* A getter: getGlobalSettings, then one field of what it returned.
Getter(op, field) ==
    LET s == getGlobalSettings(gfile, defaults)
        v == IF field = "aiProvider"
             THEN (IF s[field] \in {NoKey, Undef, ""} THEN "openai" ELSE s[field])
             ELSE (IF s[field] = NoKey THEN Undef ELSE s[field])
    IN  /\ gfile' = GlobalFileAfterRead(gfile, defaults)
        /\ UNCHANGED defaults
        /\ last' = [Call(op, "", "ok") EXCEPT !.value = v, !.global = s]
        /\ GlobalStep

\* A setter: getGlobalSettings, the assignment to the object it returned
\* (defaultGlobalSettings itself after a failed read), setGlobalSettings.
Setter(op, field, v) ==
    LET s == [getGlobalSettings(gfile, defaults) EXCEPT ![field] = v]
    IN  /\ defaults' = IF GlobalReadable(gfile) THEN defaults ELSE s
        /\ gfile' = setGlobalSettings(GlobalFileAfterRead(gfile, defaults), s)
        /\ last' = [Call(op, "", "ok") EXCEPT !.value = v]
        /\ GlobalStep

getAiProvider == Getter("getAiProvider", "aiProvider")
getOpenAiKey == Getter("getOpenAiKey", "openAiKey")
getOpenAiBaseUrl == Getter("getOpenAiBaseUrl", "openAiBaseUrl")
getOpenAiModel == Getter("getOpenAiModel", "openAiModel")
getClaudeApiKey == Getter("getClaudeApiKey", "claudeApiKey")
getClaudeModel == Getter("getClaudeModel", "claudeModel")

setAiProvider == \E v \in AiProviders : Setter("setAiProvider", "aiProvider", v)
setOpenAiKey == \E v \in StringInputs : Setter("setOpenAiKey", "openAiKey", v)
setOpenAiBaseUrl == \E v \in StringInputs : Setter("setOpenAiBaseUrl", "openAiBaseUrl", v)
setOpenAiModel == \E v \in StringInputs : Setter("setOpenAiModel", "openAiModel", v)
setClaudeApiKey == \E v \in StringInputs : Setter("setClaudeApiKey", "claudeApiKey", v)
setClaudeModel == \E v \in StringInputs : Setter("setClaudeModel", "claudeModel", v)

\* settings.json is removed, or replaced by text that is not JSON, or by JSON
\* the schema rejects, from outside.
BrokenGlobal(f) ==
    IF f.kind = "json"
    THEN {MissingGlobalFile, GarbageGlobalFile, [f EXCEPT !.val.aiProvider = Bad],
          [f EXCEPT !.val.openAiKey = Bad]}
    ELSE {MissingGlobalFile, GarbageGlobalFile}

externalEditGlobal ==
    /\ edits < MaxEdits
    /\ calls < MaxGlobalCalls
    /\ \E f \in BrokenGlobal(gfile) : gfile' = f
    /\ last' = Call("externalEdit", "", "ok")
    /\ calls' = calls + 1
    /\ edits' = edits + 1
    /\ UNCHANGED defaults
    /\ GlobalFrame

InitGlobal ==
    /\ dirs = {}
    /\ settings = [n \in Names |-> MissingSettingsFile]
    /\ history = [n \in Names |-> MissingListFile]
    /\ favorites = [n \in Names |-> MissingListFile]
    /\ last = NoCall
    /\ scenario = NoScenario
    /\ calls = 0
    /\ adds = [n \in Names |-> 0]
    /\ edits = 0
    /\ gfile \in {MissingGlobalFile, GlobalFile(LegacyGlobal)}
    /\ defaults = defaultGlobalSettings
    /\ pc = <<>>
    /\ loc = <<>>
    /\ legacy = <<>>
    /\ ui = <<>>
    /\ db = <<>>

NextGlobal ==
    \/ getAiProvider
    \/ getOpenAiKey
    \/ getOpenAiBaseUrl
    \/ getOpenAiModel
    \/ getClaudeApiKey
    \/ getClaudeModel
    \/ setAiProvider
    \/ setOpenAiKey
    \/ setOpenAiBaseUrl
    \/ setOpenAiModel
    \/ setClaudeApiKey
    \/ setClaudeModel
    \/ externalEditGlobal

SpecGlobal == InitGlobal /\ [][NextGlobal]_vars

SetterOps ==
    {"setAiProvider", "setOpenAiKey", "setOpenAiBaseUrl", "setOpenAiModel",
     "setClaudeApiKey", "setClaudeModel"}
GetterOps ==
    {"getAiProvider", "getOpenAiKey", "getOpenAiBaseUrl", "getOpenAiModel",
     "getClaudeApiKey", "getClaudeModel"}

FieldOf(op) ==
    CASE op \in {"setAiProvider", "getAiProvider"} -> "aiProvider"
      [] op \in {"setOpenAiKey", "getOpenAiKey"} -> "openAiKey"
      [] op \in {"setOpenAiBaseUrl", "getOpenAiBaseUrl"} -> "openAiBaseUrl"
      [] op \in {"setOpenAiModel", "getOpenAiModel"} -> "openAiModel"
      [] op \in {"setClaudeApiKey", "getClaudeApiKey"} -> "claudeApiKey"
      [] op \in {"setClaudeModel", "getClaudeModel"} -> "claudeModel"

\* C9: a setter called with v on a valid settings.json stores v in its field
\* and leaves every other field of the document, connectionString included,
\* as it was; the matching getter called next returns v.
C9_SetterKeepsOtherFields ==
    [][/\ (last'.op \in SetterOps /\ GlobalReadable(gfile)) =>
            /\ gfile'.kind = "json"
            /\ gfile'.val[FieldOf(last'.op)] = last'.value
            /\ \A g \in GlobalFields \ {FieldOf(last'.op)} :
                  gfile'.val[g] = gfile.val[g]
       /\ (last.op \in SetterOps /\ last'.op \in GetterOps
             /\ FieldOf(last'.op) = FieldOf(last.op)) =>
            last'.value = last.value]_vars

C9_Witness ==
    /\ last.op = "setOpenAiModel"
    /\ calls = 1
    /\ gfile.val.openAiModel = "v1"
    /\ gfile.val.connectionString = PgString
    /\ gfile.val.openAiKey = "sk-old"

\* C10: a getter never fails; when settings.json is missing or fails the
\* schema the settings it read are what settings.json holds afterwards;
\* getAiProvider returns openai or claude, and openai on a new installation.
C10_GlobalReadSelfHeals ==
    [][last'.op \in GetterOps =>
          /\ last'.result = "ok"
          /\ ~GlobalReadable(gfile) => gfile' = GlobalFile(last'.global)
          /\ last'.op = "getAiProvider" =>
                /\ last'.value \in {"openai", "claude"}
                /\ (calls = 0 /\ gfile.kind = "missing") => last'.value = "openai"]_vars

C10_Witness ==
    /\ last.op = "getAiProvider"
    /\ calls = 1
    /\ last.value = "openai"
    /\ gfile = GlobalFile(defaultGlobalSettings)

(***************************************************************************)
(* SpecRace: two calls that mutate the same document are in flight at      *)
(* once.  A call gives up control at each await, so its file reads and     *)
(* writes are separate steps, and the steps of the two calls interleave.   *)
(* Call 1 and call 2 change different parts of the document: they append   *)
(* different entries (or call 2 attaches a graph to a stored entry), or    *)
(* they set different fields of the global settings.                       *)
(***************************************************************************)
Procs == {1, 2}

OldEntry == Entry("q0", NoKey)
RaceEntry(p) == Entry(IF p = 1 THEN "q1" ELSE "q2", NoKey)

NoLocal ==
    [op |-> "none", field |-> NoKey, value |-> NoKey, entry |-> NoEntry, id |-> NoKey,
     global |-> NoGlobal, alias |-> FALSE, pendingList |-> MissingListFile,
     pendingGlobal |-> MissingGlobalFile, after |-> FALSE]

AddCall(p) == [NoLocal EXCEPT !.op = "addQueryToConnectionHistory", !.entry = RaceEntry(p)]
UpdateCall ==
    [NoLocal EXCEPT !.op = "updateConnectionHistory", !.id = "q0",
                    !.entry = Partial("graph", "graph2")]
SetCall(op, field, v) == [NoLocal EXCEPT !.op = op, !.field = field, !.value = v]

RaceCalls ==
    {<<AddCall(1), AddCall(2)>>,
     <<AddCall(1), UpdateCall>>,
     <<SetCall("setOpenAiKey", "openAiKey", "k-new"),
       SetCall("setOpenAiModel", "openAiModel", "m-new")>>,
     <<SetCall("setOpenAiKey", "openAiKey", "k-new"),
       SetCall("setAiProvider", "aiProvider", "claude")>>}

RaceGlobalFiles ==
    {MissingGlobalFile,
     GlobalFile([NoGlobal EXCEPT !.aiProvider = "openai"]),
     GlobalFile([NoGlobal EXCEPT !.aiProvider = "openai", !.openAiKey = "k-old",
                                 !.openAiModel = "m-old"])}

InitRace ==
    /\ dirs = {"a"}
    /\ settings = [n \in Names |->
          IF n = "a"
          THEN SettingsFile([connectionString |-> PgString, promptExtension |-> NoKey])
          ELSE MissingSettingsFile]
    /\ history = [n \in Names |->
          IF n = "a" THEN ListFile(<<OldEntry>>) ELSE MissingListFile]
    /\ favorites = [n \in Names |-> IF n = "a" THEN ListFile(<<>>) ELSE MissingListFile]
    /\ last = NoCall
    /\ scenario = NoScenario
    /\ calls = 0
    /\ adds = [n \in Names |-> 0]
    /\ edits = 0
    /\ gfile \in RaceGlobalFiles
    /\ defaults = defaultGlobalSettings
    /\ pc = [p \in Procs |-> "start"]
    /\ loc \in {[p \in Procs |-> c[p]] : c \in RaceCalls}
    /\ legacy = <<>>
    /\ ui = <<>>
    /\ db = <<>>

Other(p) == CHOOSE q \in Procs : q # p

RaceFrame ==
    UNCHANGED <<dirs, settings, favorites, scenario, calls, adds, edits, legacy, ui, db>>

HistoryOps == {"addQueryToConnectionHistory", "updateConnectionHistory"}

\* The call's result for the history it read.
NewHistory(l, cur) ==
    IF l.op = "addQueryToConnectionHistory"
    THEN AddHistoryResult(cur, l.entry)
    ELSE MapUpdate(cur, l.id, l.entry)

\* await getConnectionHistory(name): the read.  What the call will write is
\* computed from it at once.
RaceReadHistory(p) ==
    /\ pc[p] = "start"
    /\ loc[p].op \in HistoryOps
    /\ loc' = [loc EXCEPT ![p].pendingList =
                              ListFile(NewHistory(loc[p], ReadList(history["a"]))),
                          ![p].after = (pc[Other(p)] = "done")]
    /\ pc' = [pc EXCEPT ![p] = "write"]
    /\ last' = Call("read", ToString(p), "ok")
    /\ UNCHANGED <<history, gfile, defaults>>
    /\ RaceFrame

\* await setConnectionHistory(name, newHistory): the write.
RaceWriteHistory(p) ==
    /\ pc[p] = "write"
    /\ loc[p].op \in HistoryOps
    /\ history' = [history EXCEPT !["a"] = loc[p].pendingList]
    /\ pc' = [pc EXCEPT ![p] = "done"]
    /\ last' = Call("write", ToString(p), "ok")
    /\ UNCHANGED <<loc, gfile, defaults>>
    /\ RaceFrame

\* getGlobalSettings' readJson and parse.  On success the setter's assignment
\* follows at once; on failure writeJson is called with the defaults.
RaceReadGlobal(p) ==
    /\ pc[p] = "start"
    /\ loc[p].op \in SetterOps
    /\ IF GlobalReadable(gfile)
       THEN /\ loc' = [loc EXCEPT
                  ![p].global = [ParseGlobal(gfile.val) EXCEPT ![loc[p].field] = loc[p].value],
                  ![p].after = (pc[Other(p)] = "done")]
            /\ pc' = [pc EXCEPT ![p] = "mergeRead"]
       ELSE /\ loc' = [loc EXCEPT
                  ![p].alias = TRUE,
                  ![p].pendingGlobal = GlobalFileAfterRead(gfile, defaults),
                  ![p].after = (pc[Other(p)] = "done")]
            /\ pc' = [pc EXCEPT ![p] = "heal"]
    /\ last' = Call("read", ToString(p), "ok")
    /\ UNCHANGED <<history, gfile, defaults>>
    /\ RaceFrame

\* getGlobalSettings' writeJson completes; the setter's assignment, to the
\* object defaultGlobalSettings, follows at once.
RaceHealGlobal(p) ==
    /\ pc[p] = "heal"
    /\ gfile' = loc[p].pendingGlobal
    /\ defaults' = [defaults EXCEPT ![loc[p].field] = loc[p].value]
    /\ pc' = [pc EXCEPT ![p] = "mergeRead"]
    /\ last' = Call("heal", ToString(p), "ok")
    /\ UNCHANGED <<loc, history>>
    /\ RaceFrame

\* setGlobalSettings' readJson, and the merge that follows at once.
RaceMergeReadGlobal(p) ==
    /\ pc[p] = "mergeRead"
    /\ loc' = [loc EXCEPT ![p].pendingGlobal =
                  setGlobalSettings(gfile, IF loc[p].alias THEN defaults ELSE loc[p].global)]
    /\ pc' = [pc EXCEPT ![p] = "mergeWrite"]
    /\ last' = Call("read", ToString(p), "ok")
    /\ UNCHANGED <<history, gfile, defaults>>
    /\ RaceFrame

\* setGlobalSettings' writeJson.
RaceMergeWriteGlobal(p) ==
    /\ pc[p] = "mergeWrite"
    /\ gfile' = loc[p].pendingGlobal
    /\ pc' = [pc EXCEPT ![p] = "done"]
    /\ last' = Call("write", ToString(p), "ok")
    /\ UNCHANGED <<loc, history, defaults>>
    /\ RaceFrame

ReadHistoryStep == \E p \in Procs : RaceReadHistory(p)
WriteHistoryStep == \E p \in Procs : RaceWriteHistory(p)
ReadGlobalStep == \E p \in Procs : RaceReadGlobal(p)
HealGlobalStep == \E p \in Procs : RaceHealGlobal(p)
MergeReadGlobalStep == \E p \in Procs : RaceMergeReadGlobal(p)
MergeWriteGlobalStep == \E p \in Procs : RaceMergeWriteGlobal(p)

NextRace ==
    \/ ReadHistoryStep
    \/ WriteHistoryStep
    \/ ReadGlobalStep
    \/ HealGlobalStep
    \/ MergeReadGlobalStep
    \/ MergeWriteGlobalStep

SpecRace == InitRace /\ [][NextRace]_vars

\* The stored document shows call p's mutation.
Reflected(p) ==
    CASE loc[p].op = "addQueryToConnectionHistory" ->
           /\ history["a"].kind = "json"
           /\ \E i \in 1..Len(history["a"].val) : history["a"].val[i] = loc[p].entry
      [] loc[p].op = "updateConnectionHistory" ->
           /\ history["a"].kind = "json"
           /\ \E i \in 1..Len(history["a"].val) :
                 /\ history["a"].val[i].id = loc[p].id
                 /\ history["a"].val[i].graph = loc[p].entry.graph
      [] OTHER ->
           /\ gfile.kind = "json"
           /\ gfile.val[loc[p].field] = loc[p].value

BothDone == \A p \in Procs : pc[p] = "done"

\* C6: when two mutating calls on one document overlap, the final document
\* reflects both mutations.
C6_OverlapLosesNothing == BothDone => \A p \in Procs : Reflected(p)

\* C6 as amended: the final document reflects the mutation of the call that
\* wrote last, and reflects both when one call began after the other ended.
C6_LastWriterWins ==
    BothDone =>
        /\ \A p \in Procs : last.name = ToString(p) => Reflected(p)
        /\ (\E p \in Procs : loc[p].after) => \A p \in Procs : Reflected(p)

C6_Witness ==
    /\ BothDone
    /\ \A p \in Procs : ~loc[p].after
    /\ \E p \in Procs : ~Reflected(p)

(***************************************************************************)
(* SpecMigrate: the single-connection layout.  <root>/settings.json may    *)
(* hold the query history under queryHistory, next to connectionString;    *)
(* <root>/history.json is where the history is kept since.  Reading the    *)
(* history migrates the embedded one.  legacy.settings is the settings     *)
(* document (queryHistory is read only when hasHistory), legacy.history    *)
(* the history file.                                                       *)
(***************************************************************************)
MaxMigrateCalls == 3

LegacySettings(kind, cs, has, qh) ==
    [kind |-> kind, connectionString |-> cs, hasHistory |-> has, queryHistory |-> qh]

MissingLegacySettings == LegacySettings("missing", NoKey, FALSE, <<>>)

HistoryInputs ==
    {<<>>} \cup {<<e>> : e \in EntryInputs} \cup {<<e, f>> : e \in EntryInputs, f \in EntryInputs}

\* The migration with no test of the destination.
migrateHistory_NoDestinationCheck(l, multi) ==
    IF l.settings.kind = "json" /\ l.settings.hasHistory
    THEN [settings |-> [l.settings EXCEPT !.hasHistory = FALSE, !.queryHistory = <<>>],
          history |-> ListFile(l.settings.queryHistory)]
    ELSE l

\* The files after the migration ran; multi: the connections directory exists.
migrateHistory(l, multi) ==
    IF multi \/ l.history.kind # "missing"
    THEN l
    ELSE IF l.settings.kind = "json" /\ l.settings.hasHistory
         THEN [settings |-> [l.settings EXCEPT !.hasHistory = FALSE, !.queryHistory = <<>>],
               history |-> ListFile(l.settings.queryHistory)]
         ELSE [l EXCEPT !.history = ListFile(<<>>)]

MigrateFrame ==
    UNCHANGED <<dirs, settings, history, favorites, gfile, defaults, adds, edits,
                pc, loc, ui, db>>

\* scenario.phase: 1 after a read that migrated, 2 after the read that follows it.
TrackMigration(sc, before, after, prev) ==
    IF after.settings # before.settings
    THEN [name |-> "", phase |-> 1]
    ELSE IF sc.phase = 1 /\ prev.op = "getQueryHistory"
         THEN [name |-> "", phase |-> 2]
         ELSE [name |-> "", phase |-> 0]

\* getQueryHistory of the single-connection layout: migrate, then read.
getQueryHistory ==
    /\ calls < MaxMigrateCalls
    /\ calls' = calls + 1
    /\ legacy' = migrateHistory(legacy, dirs # {})
    /\ last' = [Call("getQueryHistory", "", "ok") EXCEPT !.list = ReadList(legacy'.history)]
    /\ scenario' = TrackMigration(scenario, legacy, legacy', last)
    /\ MigrateFrame

\* addQueryToHistory of the single-connection layout.
addQueryToHistory ==
    /\ calls < MaxMigrateCalls
    /\ calls' = calls + 1
    /\ \E e \in EntryInputs :
          LET l == migrateHistory(legacy, dirs # {})
          IN  /\ legacy' = [l EXCEPT !.history =
                                ListFile(AddHistoryResult(ReadList(l.history), e))]
              /\ last' = [Call("addQueryToHistory", "", "ok") EXCEPT !.entry = e]
    /\ scenario' = NoScenario
    /\ MigrateFrame

InitMigrate ==
    /\ dirs \in {{}, {"a"}}
    /\ settings = [n \in Names |-> MissingSettingsFile]
    /\ history = [n \in Names |-> MissingListFile]
    /\ favorites = [n \in Names |-> MissingListFile]
    /\ last = NoCall
    /\ scenario = NoScenario
    /\ calls = 0
    /\ adds = [n \in Names |-> 0]
    /\ edits = 0
    /\ gfile = MissingGlobalFile
    /\ defaults = defaultGlobalSettings
    /\ pc = <<>>
    /\ loc = <<>>
    /\ ui = <<>>
    /\ db = <<>>
    /\ \E st \in {MissingLegacySettings}
                   \cup {LegacySettings("json", PgString, FALSE, <<>>)}
                   \cup {LegacySettings("json", PgString, TRUE, h) : h \in HistoryInputs},
          hf \in {MissingListFile} \cup {ListFile(h) : h \in HistoryInputs} :
          legacy = [settings |-> st, history |-> hf]

NextMigrate ==
    \/ getQueryHistory
    \/ addQueryToHistory

SpecMigrate == InitMigrate /\ [][NextMigrate]_vars

\* C11: the migration moves the history embedded in settings.json to
\* history.json and keeps the other settings fields; a second run changes
\* nothing; and when history.json exists a run changes neither file.
C11_MigrationIdempotent ==
    [][last'.op = "getQueryHistory" =>
          /\ (legacy.history.kind = "missing" /\ legacy.settings.kind = "json"
                /\ legacy.settings.hasHistory /\ dirs = {}) =>
                /\ legacy'.history = ListFile(legacy.settings.queryHistory)
                /\ ~legacy'.settings.hasHistory
                /\ legacy'.settings.connectionString = legacy.settings.connectionString
          /\ legacy.history.kind # "missing" => legacy' = legacy
          /\ last.op = "getQueryHistory" => legacy' = legacy]_vars

C11_Witness ==
    /\ last.op = "getQueryHistory"
    /\ scenario.phase = 2
    /\ ~legacy.settings.hasHistory
    /\ legacy.settings.connectionString = PgString
    /\ Len(legacy.history.val) = 2

(***************************************************************************)
(* More claims checked under SpecStore.                                    *)
(***************************************************************************)
\* C12: after a createConnection(name, s) that succeeded, the settings
\* document reads back as s, name is listed, and its history and favorites
\* read as empty; the getConnection called next returns s.
C12_CreateRoundTrip ==
    [][/\ (last'.op = "createConnection" /\ last'.result = "ok") =>
            LET n == last'.name
            IN  /\ SettingsReadable(settings'[n])
                /\ settings'[n].val = last'.settings
                /\ n \in listConnections'
                /\ history'[n].kind = "json" /\ ReadList(history'[n]) = <<>>
                /\ favorites'[n].kind = "json" /\ ReadList(favorites'[n]) = <<>>
       /\ (last.op = "createConnection" /\ last.result = "ok"
             /\ last'.op = "getConnection" /\ last'.name = last.name) =>
            /\ last'.result = "ok"
            /\ last'.settings = last.settings]_vars

C12_Witness ==
    /\ calls = 2
    /\ last.op = "getConnection"
    /\ last.result = "ok"
    /\ last.settings.connectionString = MyString
    /\ last.settings.promptExtension = "metric"

\* C13: an editConnection(name, s2) that succeeded leaves s2, and nothing
\* of the settings stored before, as the settings document, and leaves the
\* connection's history and favorites as they were.
C13_EditReplacesWholesale ==
    [][(last'.op = "editConnection" /\ last'.result = "ok") =>
          /\ SettingsReadable(settings'[last'.name])
          /\ settings'[last'.name].val = last'.settings
          /\ history' = history
          /\ favorites' = favorites]_vars

C13_Witness ==
    /\ last.op = "editConnection"
    /\ last.result = "ok"
    /\ settings[last.name].val.promptExtension = NoKey
    /\ scenario.phase = 5
    /\ ReadList(history[last.name]) # <<>>

HasId(l, id) == \E i \in 1..Len(l) : l[i].id = id

\* C14: updateConnectionHistory, updateConnectionFavorite and
\* removeConnectionFavorite with an id no entry has succeed and leave the
\* collection as it was.
C14_UnmatchedIdNoOp ==
    [][/\ (last'.op = "updateConnectionHistory"
             /\ ~HasId(ReadList(history[last'.name]), last'.id)) =>
            /\ last'.result = "ok"
            /\ ReadList(history'[last'.name]) = ReadList(history[last'.name])
       /\ (last'.op \in {"updateConnectionFavorite", "removeConnectionFavorite"}
             /\ ~HasId(ReadList(favorites[last'.name]), last'.id)) =>
            /\ last'.result = "ok"
            /\ ReadList(favorites'[last'.name]) = ReadList(favorites[last'.name])]_vars

C14_Witness ==
    /\ last.op = "removeConnectionFavorite"
    /\ last.id = "q2"
    /\ Len(ReadList(favorites[last.name])) = 2
    /\ ~HasId(ReadList(favorites[last.name]), "q2")

\* The entry e after the fields that updates gives were overwritten.
Overwritten(e, updates) ==
    [k \in EntryFields |-> IF updates[k] = NoKey THEN e[k] ELSE Stringify(updates[k])]

\* The number of entries of l with the given id.
RECURSIVE CountId(_, _)
CountId(l, id) ==
    IF l = <<>> THEN 0
    ELSE (IF Head(l).id = id THEN 1 ELSE 0) + CountId(Tail(l), id)

\* b is a with the entries of the given id taken out, the rest in order.
RECURSIVE IsRemoval(_, _, _)
IsRemoval(a, b, id) ==
    IF a = <<>> THEN b = <<>>
    ELSE IF Head(a).id = id THEN IsRemoval(Tail(a), b, id)
    ELSE b # <<>> /\ Head(b) = Head(a) /\ IsRemoval(Tail(a), Tail(b), id)

PointUpdate(before, after, id, updates) ==
    /\ Len(after) = Len(before)
    /\ \A i \in 1..Len(before) :
          after[i] = IF before[i].id = id THEN Overwritten(before[i], updates)
                     ELSE before[i]

\* C15: an update overwrites the given fields of the entries with the id and
\* nothing else; a remove takes out the entries with the id and nothing else;
\* the other entries keep their content and order.
C15_PointOperations ==
    [][/\ last'.op = "updateConnectionHistory" =>
            PointUpdate(ReadList(history[last'.name]), history'[last'.name].val,
                        last'.id, last'.entry)
       /\ last'.op = "updateConnectionFavorite" =>
            PointUpdate(ReadList(favorites[last'.name]), favorites'[last'.name].val,
                        last'.id, last'.entry)
       /\ last'.op = "removeConnectionFavorite" =>
            LET f == ReadList(favorites[last'.name])
                g == favorites'[last'.name].val
            IN  /\ IsRemoval(f, g, last'.id)
                /\ Len(g) = Len(f) - CountId(f, last'.id)]_vars

C15_Witness ==
    /\ last.op = "updateConnectionFavorite"
    /\ last.id = "q1"
    /\ Len(favorites[last.name].val) = 2
    /\ favorites[last.name].val[1] = Entry("q2", "graph1")
    /\ favorites[last.name].val[2] = Entry("q1", "graph2")

FavoriteOps == {"addConnectionFavorite", "updateConnectionFavorite", "removeConnectionFavorite"}
HistoryWriteOps == {"addQueryToConnectionHistory", "updateConnectionHistory"}

\* C17: the favorites calls leave the connection's history as it was and
\* the history calls leave its favorites as they were.
C17_FavoriteIsCopy ==
    [][/\ last'.op \in FavoriteOps => history' = history
       /\ last'.op \in HistoryWriteOps => favorites' = favorites]_vars

C17_Witness ==
    /\ last.op = "updateConnectionFavorite"
    /\ last.id = "q1"
    /\ history[last.name].kind = "json"
    /\ history[last.name].val = <<Entry("q1", NoKey)>>
    /\ favorites[last.name].kind = "json"
    /\ favorites[last.name].val = <<Entry("q1", "graph2")>>

NoDuplicateIds(l) == \A i, j \in 1..Len(l) : l[i].id = l[j].id => i = j

\* C18: no two entries of one connection's history have the same id, and no
\* two entries of its favorites.
C18_IdsUnique ==
    \A n \in Names :
        /\ NoDuplicateIds(ReadList(history[n]))
        /\ NoDuplicateIds(ReadList(favorites[n]))

(***************************************************************************)
(* SpecFavorites: connection "a" exists and favorites are added to it past *)
(* the history's cap, with updates and reads in between.                   *)
(***************************************************************************)
MaxFavoriteAdds == 22

AddNextFavorite ==
    /\ adds["a"] < MaxFavoriteAdds
    /\ addConnectionFavorite("a", NthEntry(adds["a"] + 1))
    /\ adds' = [adds EXCEPT !["a"] = adds["a"] + 1]
    /\ UNCHANGED <<calls, edits>>

UpdateFavoriteGraph ==
    \E i \in 1..MaxFavoriteAdds :
        /\ calls < MaxUpdates
        /\ i <= adds["a"] + 1
        /\ updateConnectionFavorite("a", ToString(i), Partial("graph", "graph2"))
        /\ calls' = calls + 1
        /\ UNCHANGED <<adds, edits>>

ReadFavorites == getConnectionFavorites("a") /\ UNCHANGED <<calls, adds, edits>>

NextFavorites == AddNextFavorite \/ UpdateFavoriteGraph \/ ReadFavorites

SpecFavorites == InitHistory /\ [][NextFavorites]_vars

\* C16: addConnectionFavorite stores the new favorite followed by all the
\* favorites stored before, in their order; after N adds to the empty
\* collection getConnectionFavorites returns N entries, beyond 20 too.
C16_FavoritesUnbounded ==
    [][/\ last'.op = "addConnectionFavorite" =>
            /\ favorites'[last'.name].kind = "json"
            /\ favorites'[last'.name].val =
                  <<last'.entry>> \o ReadList(favorites[last'.name])
       /\ last'.op = "getConnectionFavorites" =>
            Len(last'.list) = adds[last'.name]]_vars

C16_Witness ==
    /\ last.op = "getConnectionFavorites"
    /\ adds["a"] = 22
    /\ Len(last.list) = 22
    /\ last.list[1].id = "22"
    /\ last.list[22].id = "1"

(***************************************************************************)
(* SpecIsolation: the connections "a" and "b" both exist, each with        *)
(* settings, a history and favorites of its own, and calls are made on     *)
(* either.                                                                 *)
(***************************************************************************)
MaxIsolationCalls == 2

IsolationIds == EntryIds \cup {"q0"}

InitIsolation ==
    /\ dirs = {"a", "b"}
    /\ settings = [n \in Names |->
          IF n = "a"
          THEN SettingsFile([connectionString |-> PgString, promptExtension |-> NoKey])
          ELSE SettingsFile([connectionString |-> MyString, promptExtension |-> "metric"])]
    /\ history = [n \in Names |->
          IF n = "a" THEN ListFile(<<Entry("q1", NoKey)>>) ELSE ListFile(<<OldEntry>>)]
    /\ favorites = [n \in Names |->
          IF n = "a" THEN ListFile(<<Entry("q1", NoKey)>>) ELSE ListFile(<<OldEntry>>)]
    /\ last = NoCall
    /\ scenario = NoScenario
    /\ calls = 0
    /\ adds = [n \in Names |-> 0]
    /\ edits = 0
    /\ InitGlobalIdle

IsolationStep ==
    /\ calls < MaxIsolationCalls
    /\ calls' = calls + 1
    /\ UNCHANGED <<adds, edits>>

CreateOnEither ==
    \E n \in Names, m \in SettingsInputs : createConnection(n, m) /\ IsolationStep
EditOnEither ==
    \E n \in Names, m \in SettingsInputs : editConnection(n, m) /\ IsolationStep
DeleteOnEither ==
    \E n \in Names : deleteConnection(n) /\ IsolationStep
SetPromptOnEither ==
    \E n \in Names, p \in PromptInputs : setConnectionPromptExtension(n, p) /\ IsolationStep
AppendOnEither ==
    \E n \in Names, e \in EntryInputs : addQueryToConnectionHistory(n, e) /\ IsolationStep
UpdateHistoryOnEither ==
    \E n \in Names, id \in IsolationIds, u \in UpdateInputs :
        updateConnectionHistory(n, id, u) /\ IsolationStep
AddFavoriteOnEither ==
    \E n \in Names, e \in EntryInputs : addConnectionFavorite(n, e) /\ IsolationStep
RemoveFavoriteOnEither ==
    \E n \in Names, id \in IsolationIds : removeConnectionFavorite(n, id) /\ IsolationStep
UpdateFavoriteOnEither ==
    \E n \in Names, id \in IsolationIds, u \in UpdateInputs :
        updateConnectionFavorite(n, id, u) /\ IsolationStep

NextIsolation ==
    \/ CreateOnEither
    \/ EditOnEither
    \/ DeleteOnEither
    \/ SetPromptOnEither
    \/ AppendOnEither
    \/ UpdateHistoryOnEither
    \/ AddFavoriteOnEither
    \/ RemoveFavoriteOnEither
    \/ UpdateFavoriteOnEither

SpecIsolation == InitIsolation /\ [][NextIsolation]_vars

\* C19: a call on one connection leaves every other connection's
\* directory, settings, history and favorites as they were.
C19_ConnectionsIsolated ==
    [][\A n \in Names :
          n # last'.name =>
             /\ (n \in dirs') = (n \in dirs)
             /\ settings'[n] = settings[n]
             /\ history'[n] = history[n]
             /\ favorites'[n] = favorites[n]]_vars

C19_Witness ==
    /\ calls = 2
    /\ last.op = "addQueryToConnectionHistory"
    /\ last.name = "a"
    /\ history["a"].val = <<Entry("q2", "graph1"), Entry("q1", "graph2")>>
    /\ history["b"] = ListFile(<<OldEntry>>)
    /\ favorites["b"] = ListFile(<<OldEntry>>)
    /\ settings["b"].val.promptExtension = "metric"

(***************************************************************************)
(* SpecEditor: the renderer (App.tsx, useConnection.ts) with a connection  *)
(* selected or none.  ui.history and ui.favorites are the hook's state,    *)
(* whose entries carry Date objects; ui.currentItemId is the item shown;   *)
(* ui.clock is Date.now().  Each handler runs to its end.                  *)
(***************************************************************************)
MaxEditorCalls == 3
MaxClock == 2

QueryInputs == {"SELECT 1", "SELECT 2"}
GraphInputs == {Undef, "graph1"}

Date(n) == "Date:" \o ToString(n)
ISO(n) == "ISO:" \o ToString(n)

\* Date.prototype.toISOString
toISOString(d) == ISO(CHOOSE n \in 0..MaxClock : Date(n) = d)

\* { ...entry, timestamp: entry.timestamp.toISOString() }
ForStorage(e) == [e EXCEPT !.timestamp = toISOString(e.timestamp)]

\* { ...updates, timestamp: updates.timestamp?.toISOString() }
UpdatesForStorage(u) ==
    [u EXCEPT !.timestamp = IF u.timestamp = NoKey THEN Undef ELSE toISOString(u.timestamp)]

EditorFrame ==
    UNCHANGED <<settings, gfile, defaults, scenario, adds, edits, pc, loc, legacy, db>>

EditorStep ==
    /\ calls < MaxEditorCalls
    /\ calls' = calls + 1
    /\ EditorFrame

IsFavorite(id) == id # NoKey /\ \E i \in 1..Len(ui.favorites) : ui.favorites[i].id = id

\* addToHistory (useConnection.ts 120-166), called with an entry made now.
addToHistory(name, historyEntry) ==
    /\ setConnectionHistory(name,
          AddHistoryResult(ReadList(history[name]), ForStorage(historyEntry)))
    /\ ui' = [ui EXCEPT !.history = <<historyEntry>> \o Slice(ui.history, HistoryKeep),
                        !.currentItemId = historyEntry.id]

\* updateFavorite (useConnection.ts 292-330).
updateFavorite(name, id, updates) ==
    /\ setConnectionFavorites(name,
          MapUpdate(ReadList(favorites[name]), id, UpdatesForStorage(updates)))
    /\ ui' = [ui EXCEPT !.favorites = MapUpdate(ui.favorites, id, updates)]

\* updateHistory (useConnection.ts 168-204).
updateHistory(name, id, updates) ==
    /\ setConnectionHistory(name,
          MapUpdate(ReadList(history[name]), id, UpdatesForStorage(updates)))
    /\ ui' = [ui EXCEPT !.history = MapUpdate(ui.history, id, updates)]

\* handleGraphMetadataChange (App.tsx 179-196).
handleGraphMetadataChange(newMetadata) ==
    /\ IF ui.currentItemId = NoKey \/ ui.selected = NoKey
       THEN UNCHANGED <<storeVars, ui>>
       ELSE IF IsFavorite(ui.currentItemId)
       THEN updateFavorite(ui.selected, ui.currentItemId, Partial("graph", newMetadata))
       ELSE updateHistory(ui.selected, ui.currentItemId, Partial("graph", newMetadata))
    /\ last' = [Call("handleGraphMetadataChange", ui.selected, "ok")
                 EXCEPT !.id = ui.currentItemId, !.value = newMetadata]

\* runQuery appending to the history whatever the current item is.
runQuery_AlwaysAppends(query, res, graph) ==
    IF ui.selected = NoKey
    THEN /\ UNCHANGED <<storeVars, ui>>
         /\ last' = Call("runQuery", "", "NoConnection")
    ELSE IF res = "error"
    THEN /\ UNCHANGED <<storeVars, ui>>
         /\ last' = [Call("runQuery", ui.selected, "error") EXCEPT !.value = query]
    ELSE /\ addToHistory(ui.selected,
              [id |-> ToString(ui.clock), query |-> query, results |-> "rows",
               graph |-> graph, timestamp |-> Date(ui.clock)])
         /\ last' = [Call("runQuery", ui.selected, "rows") EXCEPT !.value = query]

\* runQuery (App.tsx 60-115); res is what runQueryForConnection returned.
runQuery(query, res, graph) ==
    IF ui.selected = NoKey
    THEN /\ UNCHANGED <<storeVars, ui>>
         /\ last' = Call("runQuery", "", "NoConnection")
    ELSE IF res = "error"
    THEN /\ UNCHANGED <<storeVars, ui>>
         /\ last' = [Call("runQuery", ui.selected, "error") EXCEPT !.value = query]
    ELSE IF IsFavorite(ui.currentItemId)
    THEN /\ updateFavorite(ui.selected, ui.currentItemId,
              [id |-> NoKey, query |-> query, results |-> "rows", graph |-> graph,
               timestamp |-> Date(ui.clock)])
         /\ last' = [Call("runQuery", ui.selected, "rows")
                       EXCEPT !.value = query, !.id = ui.currentItemId]
    ELSE /\ addToHistory(ui.selected,
              [id |-> ToString(ui.clock), query |-> query, results |-> "rows",
               graph |-> graph, timestamp |-> Date(ui.clock)])
         /\ last' = [Call("runQuery", ui.selected, "rows") EXCEPT !.value = query]

\* addToFavorites (useConnection.ts 206-254).
addToFavorites(historyItem) ==
    /\ ui.selected # NoKey
    /\ IF \E i \in 1..Len(ui.favorites) : ui.favorites[i].id = historyItem.id
       THEN UNCHANGED <<storeVars, ui>>
       ELSE /\ setConnectionFavorites(ui.selected,
                  AddFavoriteResult(ReadList(favorites[ui.selected]),
                                    ForStorage(historyItem)))
            /\ ui' = [ui EXCEPT !.favorites = <<historyItem>> \o ui.favorites]
    /\ last' = [Call("addToFavorites", ui.selected, "ok") EXCEPT !.id = historyItem.id]

\* handleItemSelect (App.tsx 170-177).
handleItemSelect(item) ==
    /\ ui' = [ui EXCEPT !.currentItemId = item.id]
    /\ last' = [Call("handleItemSelect", "", "ok") EXCEPT !.id = item.id]
    /\ UNCHANGED storeVars

\* handleNewQuery (App.tsx 218-224).
handleNewQuery ==
    /\ ui' = [ui EXCEPT !.currentItemId = NoKey]
    /\ last' = Call("handleNewQuery", "", "ok")
    /\ UNCHANGED storeVars

RunQuery ==
    \E q \in QueryInputs, res \in {"rows", "error"}, g \in GraphInputs :
        runQuery(q, res, g) /\ EditorStep

AddToFavorites ==
    \E i \in 1..Len(ui.history) : addToFavorites(ui.history[i]) /\ EditorStep

HandleItemSelect ==
    /\ \/ \E i \in 1..Len(ui.history) : handleItemSelect(ui.history[i])
       \/ \E i \in 1..Len(ui.favorites) : handleItemSelect(ui.favorites[i])
    /\ EditorStep

HandleNewQuery == handleNewQuery /\ EditorStep

HandleGraphMetadataChange ==
    \E g \in {"graph1", "graph2"} : handleGraphMetadataChange(g) /\ EditorStep

\* A millisecond passes.
Tick ==
    /\ ui.clock < MaxClock
    /\ ui' = [ui EXCEPT !.clock = ui.clock + 1]
    /\ UNCHANGED <<storeVars, last, calls>>
    /\ EditorFrame

InitEditor ==
    /\ dirs = {"a"}
    /\ settings = [n \in Names |->
          IF n = "a"
          THEN SettingsFile([connectionString |-> PgString, promptExtension |-> NoKey])
          ELSE MissingSettingsFile]
    /\ history = [n \in Names |-> IF n = "a" THEN ListFile(<<>>) ELSE MissingListFile]
    /\ favorites = [n \in Names |-> IF n = "a" THEN ListFile(<<>>) ELSE MissingListFile]
    /\ last = NoCall
    /\ scenario = NoScenario
    /\ calls = 0
    /\ adds = [n \in Names |-> 0]
    /\ edits = 0
    /\ gfile = MissingGlobalFile
    /\ defaults = defaultGlobalSettings
    /\ pc = <<>>
    /\ loc = <<>>
    /\ legacy = <<>>
    /\ db = <<>>
    /\ \E sel \in {NoKey, "a"} :
          ui = [selected |-> sel, currentItemId |-> NoKey, history |-> <<>>,
                favorites |-> <<>>, clock |-> 0]

NextEditor ==
    \/ RunQuery
    \/ AddToFavorites
    \/ HandleItemSelect
    \/ HandleNewQuery
    \/ HandleGraphMetadataChange
    \/ Tick

SpecEditor == InitEditor /\ [][NextEditor]_vars

\* The step is a run of the editor's query that ended with this result.
Ran(result) == calls' = calls + 1 /\ last'.op = "runQuery" /\ last'.result = result

\* The run stored one new entry with the query and its rows at the head of
\* the selected connection's history, before the entries it held.
AppendedToHistory ==
    LET n == last'.name
        h == history'[n].val
    IN  /\ history'[n].kind = "json"
        /\ Len(h) = Min(Len(ReadList(history[n])) + 1, HistoryMax)
        /\ h[1].query = last'.value
        /\ h[1].results = "rows"
        /\ SubSeq(h, 2, Len(h)) = Slice(ReadList(history[n]), HistoryKeep)

Blank(p) == \A i \in 1..Len(Chars(p)) : Chars(p)[i] = " "

\* The call that ran last stored a blank prompt extension for the name.
BlankSetDone(n) ==
    /\ last.op = "setConnectionPromptExtension"
    /\ last.name = n
    /\ last.result = "ok"
    /\ Blank(last.value)

\* C21: setConnectionPromptExtension(name, p) with p empty or only spaces
\* stores the prompt extension as absent and leaves the connectionString as it
\* was; the getConnectionPromptExtension(name) that follows returns undefined.
C21_BlankPromptIsUnset ==
    [][\A n \in Names :
         /\ (calls' = calls + 1 /\ BlankSetDone(n)')
              => /\ SettingsReadable(settings'[n])
                 /\ settings'[n].val.promptExtension = NoKey
                 /\ settings'[n].val.connectionString = settings[n].val.connectionString
         /\ (calls' = calls + 1 /\ BlankSetDone(n)
               /\ last'.op = "getConnectionPromptExtension" /\ last'.name = n)
              => last'.result = "ok" /\ last'.value = NoKey]_vars

C21_Witness ==
    /\ last.op = "getConnectionPromptExtension"
    /\ last.result = "ok"
    /\ last.value = NoKey
    /\ settings["a"].kind = "json"
    /\ settings["a"].val.connectionString = MyString

(***************************************************************************)
(* SpecDispatch: the database module (parseConnectionString,               *)
(* testConnectionString, runQuery, getTableSchema, getDatabaseSchema), one *)
(* call at a time, one awaited driver step per action.  db.clients are the *)
(* clients ever created, each with the call that made it, its state and    *)
(* the steps attempted on it; db.call is the call in flight or the one     *)
(* that ended last.  The driver makes a step succeed or fail.              *)
(***************************************************************************)
MaxDbCalls == 2

ConnInputs == {PgString, MyString, LiteString, AfterString, BothString, BareString}
DbOps == {"runQuery", "getTableSchema", "getDatabaseSchema", "testConnectionString"}
InvalidConnection == "Invalid connection string"

NoDbCall ==
    [n |-> 0, op |-> "none", cs |-> "", dialect |-> "null", at |-> "idle",
     client |-> 0, result |-> "none"]

\* new pg.Client({ connectionString }) / mysql.createConnection(connectionString)
NewClient(n, cs, dialect) ==
    [owner |-> n, cs |-> cs, dialect |-> dialect, state |-> "created", steps |-> <<>>]

\* The call ends: it returns or throws the result.
Return(d, result) == [d EXCEPT !.call.at = "idle", !.call.result = result]

\* The call makes its client and awaits the connect.
OpenClient(d, then) ==
    [d EXCEPT !.clients = Append(d.clients, NewClient(d.call.n, d.call.cs, d.call.dialect)),
              !.call.client = Len(d.clients) + 1,
              !.call.at = then]

\* runQuery without the dialect test, on a postgres client whatever the string.
dbRunQuery_NoDialectCheck(d) == OpenClient(d, "connect")

\* The database module's runQuery up to its first await.
dbRunQuery(d) ==
    IF d.call.dialect = "null" THEN Return(d, InvalidConnection)
    ELSE OpenClient(d, "connect")

\* getTableSchema / getDatabaseSchema up to the first await: the dialect test,
\* then runQuery with the dialect's catalog query.
getSchema(d) ==
    IF d.call.dialect = "null" THEN Return(d, InvalidConnection)
    ELSE dbRunQuery(d)

\* testConnectionString up to its first await.
testConnectionString(d) ==
    IF d.call.dialect \in {"postgres", "mysql"} THEN OpenClient(d, "connect")
    ELSE Return(d, InvalidConnection)

\* A call starts.
Begin(op, cs) ==
    LET d == [db EXCEPT !.call = [NoDbCall EXCEPT !.n = calls + 1, !.op = op, !.cs = cs,
                                     !.dialect = parseConnectionString(cs)]]
    IN  CASE op = "runQuery" -> dbRunQuery(d)
          [] op \in {"getTableSchema", "getDatabaseSchema"} -> getSchema(d)
          [] OTHER -> testConnectionString(d)

\* The step attempted on the call's client, and the client's state after it.
Attempt(d, step, state) ==
    [d EXCEPT !.clients[d.call.client].steps = Append(@, step),
              !.clients[d.call.client].state = state]

\* await client.connect() with a retry when it fails.
connect_Retries(d, ok) ==
    IF ok
    THEN [Attempt(d, "connect", "open") EXCEPT !.call.at =
             IF d.call.op = "testConnectionString"
             THEN (IF d.call.dialect = "mysql" /\ d.call.at = "connect" THEN "connect2" ELSE "end")
             ELSE "query"]
    ELSE Attempt(d, "connect", d.clients[d.call.client].state)

\* await client.connect(), or the connect inside mysql.createConnection; in
\* testConnectionString the mysql client is then connected a second time.
connect(d, ok) ==
    IF ok
    THEN [Attempt(d, "connect", "open") EXCEPT !.call.at =
             IF d.call.op = "testConnectionString"
             THEN (IF d.call.dialect = "mysql" /\ d.call.at = "connect" THEN "connect2" ELSE "end")
             ELSE "query"]
    ELSE Return(Attempt(d, "connect", d.clients[d.call.client].state), "connect failed")

\* await client.query(query) with the client ended before the error is thrown.
query_ClosesOnFailure(d, ok) ==
    IF ok
    THEN [Attempt(d, "query", "open") EXCEPT !.call.at = "end"]
    ELSE Return(Attempt(Attempt(d, "query", "open"), "end", "closed"), "query failed")

\* await client.query(query)
query(d, ok) ==
    IF ok
    THEN [Attempt(d, "query", "open") EXCEPT !.call.at = "end"]
    ELSE Return(Attempt(d, "query", "open"), "query failed")

\* await client.end(), then the return.
end(d) ==
    Return(Attempt(d, "end", "closed"),
           CASE d.call.op = "testConnectionString" -> "ok"
             [] d.call.op = "runQuery" -> "rows"
             [] OTHER -> "schema")

DispatchFrame ==
    UNCHANGED <<dirs, settings, history, favorites, gfile, defaults, last, scenario,
                adds, edits, pc, loc, legacy, ui>>

BeginCall ==
    /\ db.call.at = "idle"
    /\ calls < MaxDbCalls
    /\ \E op \in DbOps, cs \in ConnInputs : db' = Begin(op, cs)
    /\ calls' = calls + 1
    /\ DispatchFrame

Connect ==
    /\ db.call.at \in {"connect", "connect2"}
    /\ \E ok \in BOOLEAN : db' = connect(db, ok)
    /\ UNCHANGED calls
    /\ DispatchFrame

Query ==
    /\ db.call.at = "query"
    /\ \E ok \in BOOLEAN : db' = query(db, ok)
    /\ UNCHANGED calls
    /\ DispatchFrame

End ==
    /\ db.call.at = "end"
    /\ db' = end(db)
    /\ UNCHANGED calls
    /\ DispatchFrame

InitDispatch ==
    /\ gfile = MissingGlobalFile
    /\ defaults = defaultGlobalSettings
    /\ pc = <<>>
    /\ loc = <<>>
    /\ legacy = <<>>
    /\ ui = <<>>
    /\ dirs = {}
    /\ settings = [n \in Names |-> MissingSettingsFile]
    /\ history = [n \in Names |-> MissingListFile]
    /\ favorites = [n \in Names |-> MissingListFile]
    /\ last = NoCall
    /\ scenario = NoScenario
    /\ calls = 0
    /\ adds = [n \in Names |-> 0]
    /\ edits = 0
    /\ db = [clients |-> <<>>, call |-> NoDbCall]

NextDispatch ==
    \/ BeginCall
    \/ Connect
    \/ Query
    \/ End

SpecDispatch == InitDispatch /\ [][NextDispatch]_vars

\* The word lies in cs with no "//" starting at or before its last character.
MentionsBefore(cs, w) ==
    \E i \in 1..Len(cs) :
        /\ i + Len(w) - 1 <= Len(cs)
        /\ \A k \in 1..Len(w) : cs[i + k - 1] = w[k]
        /\ \A j \in 1..(i + Len(w) - 1) : ~(j < Len(cs) /\ cs[j] = "/" /\ cs[j + 1] = "/")

\* C22: the dialect of a call's connection string is postgres when the part
\* before the first "//" mentions postgres, otherwise mysql when it mentions
\* mysql, otherwise none and the call fails as an invalid connection;
\* "postgresql://u:p@h:5432/d" gives postgres, "mysql://u:p@h/d" gives mysql
\* and "sqlite://f.db" fails.
C22_DialectFromScheme ==
    db.call.op # "none" =>
        LET cs == Chars(db.call.cs)
        IN  /\ db.call.dialect =
                 IF MentionsBefore(cs, <<"p","o","s","t","g","r","e","s">>) THEN "postgres"
                 ELSE IF MentionsBefore(cs, <<"m","y","s","q","l">>) THEN "mysql"
                 ELSE "null"
            /\ db.call.cs = PgString => db.call.dialect = "postgres"
            /\ db.call.cs = MyString => db.call.dialect = "mysql"
            /\ db.call.cs = LiteString => db.call.dialect = "null"
            /\ db.call.dialect = "null" => db.call.result = InvalidConnection

C22_Witness ==
    /\ db.call.cs = LiteString
    /\ db.call.result = InvalidConnection
    /\ Len(db.clients) = 1
    /\ db.clients[1].cs = MyString
    /\ db.clients[1].dialect = "mysql"

InOrderOnce(steps) ==
    \E k \in 0..3 : steps = SubSeq(<<"connect", "query", "end">>, 1, k)

QueryOps == {"runQuery", "getTableSchema", "getDatabaseSchema"}

\* The client was made by a call that runs a statement.
MadeForQuery(c) == c.dialect # "null" /\ \E k \in 1..Len(c.steps) : c.steps[k] = "query"

\* C27: every call that runs a statement on a known dialect makes one client
\* of its own, attempts connect, query and end on it in this order and each at
\* most once, and has closed it when it returns rows; no step is ever
\* attempted on a client made by an earlier call.
C27_ConnectExecuteClose ==
    [][/\ \A i \in 1..Len(db'.clients) :
             (db'.call.op \in QueryOps /\ db'.call.client = i)
                => InOrderOnce(db'.clients[i].steps)
       /\ (db'.call.op \in QueryOps /\ db'.call.at = "idle"
             /\ db'.call.result \in {"rows", "schema"})
            => /\ db'.clients[db'.call.client].steps = <<"connect", "query", "end">>
               /\ db'.clients[db'.call.client].state = "closed"
               /\ db'.clients[db'.call.client].owner = db'.call.n
       /\ (calls' = calls + 1 /\ db'.call.dialect # "null")
            => /\ db'.call.client = Len(db.clients) + 1
               /\ db'.clients[db'.call.client].steps = <<>>
       /\ \A i \in 1..Len(db.clients) :
             db'.clients[i] # db.clients[i]
                => db.clients[i].owner = db.call.n /\ calls' = calls]_vars

C27_Witness ==
    /\ Len(db.clients) = 2
    /\ db.call.op = "runQuery"
    /\ db.call.at = "idle"
    /\ db.call.result = "rows"
    /\ db.call.client = 2
    /\ \A i \in 1..2 : /\ db.clients[i].steps = <<"connect", "query", "end">>
                       /\ db.clients[i].state = "closed"
                       /\ db.clients[i].owner = i
    /\ db.clients[1].dialect = "postgres"
    /\ db.clients[2].dialect = "mysql"

\* C28: once a call whose statement the driver rejected has ended, the
\* client it opened is closed.
C28_ClosedAfterFailedQuery ==
    (db.call.at = "idle" /\ db.call.result = "query failed")
        => db.clients[db.call.client].state = "closed"

(***************************************************************************)
(* More claims checked under SpecStore: creation against the listing.      *)
(***************************************************************************)
\* C24: createConnection(name) fails with AlreadyExists exactly when
\* listConnections returns the name; reads of a name that has no connection
\* never make a later createConnection of it fail.
C24_AlreadyExistsIffListed ==
    [][last'.op = "createConnection"
         => (last'.result = "AlreadyExists" <=> last'.name \in listConnections)]_vars

(***************************************************************************)
(* More claims checked under SpecEditor: updates without a timestamp.      *)
(***************************************************************************)
\* The stored list passes validation and its entries keep their timestamps.
TimestampsKept(before, after) ==
    /\ after.kind = "json"
    /\ Len(after.val) = Len(before.val)
    /\ \A i \in 1..Len(after.val) :
          /\ queryHistorySchema(after.val[i])
          /\ after.val[i].timestamp = before.val[i].timestamp
    /\ Len(ReadList(after)) = Len(ReadList(before))

\* C25: after the hook's updateHistory or updateFavorite with updates that
\* carry only a graph, every stored entry keeps its timestamp, the stored list
\* passes validation and the next read returns as many entries as before.
C25_UpdateKeepsTimestamp ==
    [][(last'.op = "handleGraphMetadataChange" /\ calls' = calls + 1
          /\ ui.selected # NoKey /\ ui.currentItemId # NoKey)
         => /\ TimestampsKept(history[ui.selected], history'[ui.selected])
            /\ TimestampsKept(favorites[ui.selected], favorites'[ui.selected])]_vars

(***************************************************************************)
(* More claims checked under SpecGlobal: the defaults of a failed read.    *)
(***************************************************************************)
\* C26: whenever a getter finds settings.json missing or invalid, the
\* settings it reads and persists have aiProvider openai and no API key, base
\* URL or model, whatever setters ran before.
C26_DefaultsConstant ==
    [][(last'.op \in GetterOps /\ ~GlobalReadable(gfile))
         => /\ last'.global = defaultGlobalSettings
            /\ gfile' = GlobalFile(defaultGlobalSettings)]_vars

(***************************************************************************)
(* SpecLoad: the renderer hook useConnection(connectionName) while the     *)
(* selection changes.  ui.history and ui.favorites are the hook's state,   *)
(* ui.ref is currentConnectionRef, ui.cache is connectionCache and         *)
(* ui.clock is Date.now() in minutes; loc holds the loads that await the   *)
(* disk.  A load resumes whenever its reads return.                        *)
(***************************************************************************)
MaxSelects == 3
MaxMinutes == 5
CACHE_TTL == 5

Selections == {NoKey, "a", "b"}
NoCache == [cached |-> FALSE, history |-> <<>>, favorites |-> <<>>, lastFetch |-> 0]

\* { ...item, timestamp: new Date(item.timestamp) } for every item read.
WithDates(l) == [i \in 1..Len(l) |-> [l[i] EXCEPT !.timestamp = "Date:" \o @]]

LoadFrame ==
    UNCHANGED <<settings, history, favorites, gfile, defaults, last, scenario, adds,
                edits, pc, legacy, db>>

\* loadConnectionData(false) up to its await, or to its return when it does
\* not reach the disk; u is the hook's state when the effect runs.
loadConnectionData(u, connectionName, id) ==
    IF connectionName = NoKey
    THEN /\ ui' = [u EXCEPT !.history = <<>>, !.favorites = <<>>]
         /\ UNCHANGED loc
    ELSE LET cached == u.cache[connectionName]
         IN  IF cached.cached /\ u.clock - cached.lastFetch < CACHE_TTL
             THEN /\ ui' = [u EXCEPT !.history = cached.history,
                                     !.favorites = cached.favorites]
                  /\ UNCHANGED loc
             ELSE /\ ui' = u
                  /\ loc' = loc \cup {[id |-> id, name |-> connectionName, now |-> u.clock]}

\* loadConnectionData after its await: both reads have returned.
ResumeLoad(l) ==
    LET historyWithDates == WithDates(ReadList(history[l.name]))
        favoritesWithDates == WithDates(ReadList(favorites[l.name]))
    IN  ui' = [ui EXCEPT !.cache[l.name] =
                            [cached |-> TRUE, history |-> historyWithDates,
                             favorites |-> favoritesWithDates, lastFetch |-> l.now],
                         !.history = historyWithDates,
                         !.favorites = favoritesWithDates]

\* The selection changes and the effect on connectionName runs.
SelectConnection ==
    /\ calls < MaxSelects
    /\ \E c \in Selections \ {ui.selected} :
          loadConnectionData([ui EXCEPT !.selected = c, !.ref = c], c, calls + 1)
    /\ calls' = calls + 1
    /\ UNCHANGED dirs
    /\ LoadFrame

\* getConnectionHistory and getConnectionFavorites have returned to a load.
FinishLoad ==
    /\ \E l \in loc :
          /\ ResumeLoad(l)
          /\ loc' = loc \ {l}
          /\ dirs' = connectionFavoritesPath(connectionHistoryPath(dirs, l.name), l.name)
    /\ UNCHANGED calls
    /\ LoadFrame

\* A minute passes.
Minute ==
    /\ ui.clock < MaxMinutes
    /\ ui' = [ui EXCEPT !.clock = ui.clock + 1]
    /\ UNCHANGED <<dirs, loc, calls>>
    /\ LoadFrame

InitLoad ==
    /\ dirs = Names
    /\ settings = [n \in Names |->
          SettingsFile([connectionString |-> PgString, promptExtension |-> NoKey])]
    /\ history = [n \in Names |->
          IF n = "a" THEN ListFile(<<Entry("q1", NoKey)>>)
          ELSE ListFile(<<Entry("q2", "graph1")>>)]
    /\ favorites = [n \in Names |->
          IF n = "a" THEN ListFile(<<>>) ELSE ListFile(<<Entry("q2", "graph1")>>)]
    /\ last = NoCall
    /\ scenario = NoScenario
    /\ calls = 0
    /\ adds = [n \in Names |-> 0]
    /\ edits = 0
    /\ gfile = MissingGlobalFile
    /\ defaults = defaultGlobalSettings
    /\ pc = <<>>
    /\ loc = {}
    /\ legacy = <<>>
    /\ db = <<>>
    /\ ui = [selected |-> NoKey, ref |-> NoKey, history |-> <<>>, favorites |-> <<>>,
             cache |-> [n \in Names |-> NoCache], clock |-> 0]

NextLoad ==
    \/ SelectConnection
    \/ FinishLoad
    \/ Minute

SpecLoad == InitLoad /\ [][NextLoad]_vars

\* C29: once no load is in flight, the history and favorites the hook
\* exposes are those of the selected connection.
C29_ListsOfSelected ==
    (loc = {} /\ ui.selected # NoKey)
        => /\ ui.history = WithDates(ReadList(history[ui.selected]))
           /\ ui.favorites = WithDates(ReadList(favorites[ui.selected]))

(***************************************************************************)
(* SpecSchema: getDatabaseSchema after its catalog query has returned:     *)
(* the forEach over the rows that builds tablesMap (index.ts 619-651).     *)
(* db.rows are the rows the query returned and db.tables is                *)
(* Array.from(tablesMap.values()) once the call has returned (db.done).    *)
(***************************************************************************)
MaxRows == 3

TableNames == {"t1", "t2"}
ColumnNames == {"c1", "c2"}

\* The catalog's description of a column, as one row carries it.
BaseFields ==
    {[data_type |-> "integer", is_nullable |-> "NO", column_default |-> "null",
      character_maximum_length |-> "null"],
     [data_type |-> "varchar", is_nullable |-> "YES", column_default |-> "x",
      character_maximum_length |-> "10"]}

\* The constraint joined to the row: none, a primary key or a unique one.
FlagPairs == {<<FALSE, FALSE>>, <<TRUE, FALSE>>, <<FALSE, TRUE>>}

Row(t, c, b, f) ==
    [table_name |-> t, column_name |-> c, data_type |-> b.data_type,
     is_nullable |-> b.is_nullable, column_default |-> b.column_default,
     character_maximum_length |-> b.character_maximum_length,
     is_primary_key |-> f[1], is_unique |-> f[2]]

RowInputs ==
    {Row(t, c, b, f) : t \in TableNames, c \in ColumnNames, b \in BaseFields, f \in FlagPairs}

RowSeqs == UNION {[1..n -> RowInputs] : n \in 0..MaxRows}

\* The index of the entry of l with this key, 0 when there is none:
\* tablesMap.has / table.columns.find.
Find(l, key, name) ==
    IF \E i \in 1..Len(l) : l[i][key] = name
    THEN CHOOSE i \in 1..Len(l) : l[i][key] = name /\ \A j \in 1..(i - 1) : l[j][key] # name
    ELSE 0

\* The column pushed for the first row of a column.
NewColumn(row) ==
    [columnName |-> row.column_name, dataType |-> row.data_type,
     isNullable |-> (row.is_nullable = "YES"),
     isPrimaryKey |-> (row.is_primary_key \/ FALSE),
     isUnique |-> (row.is_unique \/ FALSE),
     defaultValue |-> row.column_default, maxLength |-> row.character_maximum_length]

\* The body of the forEach, with a later row's flags replacing the column's.
foldRow_LastRowFlags(tables, row) ==
    LET withTable == IF Find(tables, "tableName", row.table_name) = 0
                     THEN Append(tables, [tableName |-> row.table_name, columns |-> <<>>])
                     ELSE tables
        t == Find(withTable, "tableName", row.table_name)
        c == Find(withTable[t].columns, "columnName", row.column_name)
    IN  IF c = 0
        THEN [withTable EXCEPT ![t].columns = Append(@, NewColumn(row))]
        ELSE [withTable EXCEPT ![t].columns[c].isPrimaryKey = row.is_primary_key,
                               ![t].columns[c].isUnique = row.is_unique]

\* The body of the forEach for one row.
foldRow(tables, row) ==
    LET withTable == IF Find(tables, "tableName", row.table_name) = 0
                     THEN Append(tables, [tableName |-> row.table_name, columns |-> <<>>])
                     ELSE tables
        t == Find(withTable, "tableName", row.table_name)
        c == Find(withTable[t].columns, "columnName", row.column_name)
    IN  IF c = 0
        THEN [withTable EXCEPT ![t].columns = Append(@, NewColumn(row))]
        ELSE [withTable EXCEPT
                ![t].columns[c].isPrimaryKey = IF row.is_primary_key THEN TRUE ELSE @,
                ![t].columns[c].isUnique = IF row.is_unique THEN TRUE ELSE @]

\* rows.forEach(...), then Array.from(tablesMap.values()).
RECURSIVE foldRows(_, _)
foldRows(tables, rows) ==
    IF rows = <<>> THEN tables ELSE foldRows(foldRow(tables, Head(rows)), Tail(rows))

SchemaFrame ==
    UNCHANGED <<dirs, settings, history, favorites, gfile, defaults, last, scenario,
                adds, edits, pc, loc, legacy, ui>>

\* getDatabaseSchema from the rows to the return.
GetDatabaseSchema ==
    /\ ~db.done
    /\ db' = [db EXCEPT !.tables = foldRows(<<>>, db.rows), !.done = TRUE]
    /\ calls' = calls + 1
    /\ SchemaFrame

InitSchema ==
    /\ dirs = {}
    /\ settings = [n \in Names |-> MissingSettingsFile]
    /\ history = [n \in Names |-> MissingListFile]
    /\ favorites = [n \in Names |-> MissingListFile]
    /\ last = NoCall
    /\ scenario = NoScenario
    /\ calls = 0
    /\ adds = [n \in Names |-> 0]
    /\ edits = 0
    /\ gfile = MissingGlobalFile
    /\ defaults = defaultGlobalSettings
    /\ pc = <<>>
    /\ loc = <<>>
    /\ legacy = <<>>
    /\ ui = <<>>
    /\ \E rows \in RowSeqs : db = [rows |-> rows, tables |-> <<>>, done |-> FALSE]

NextSchema == GetDatabaseSchema

SpecSchema == InitSchema /\ [][NextSchema]_vars

\* The indexes of the rows of a table, and of one of its columns.
RowsOfTable(rows, t) == {i \in 1..Len(rows) : rows[i].table_name = t}
RowsOfColumn(rows, t, c) == {i \in RowsOfTable(rows, t) : rows[i].column_name = c}
First(S) == CHOOSE i \in S : \A j \in S : i <= j

\* C30: in the schema built from the rows every table that has a row appears
\* once and every column of a table once, both in order of first appearance;
\* a column's dataType, nullability, default and maxLength are those of its
\* first row, and isPrimaryKey (isUnique) is true exactly when one of its rows
\* has the primary-key (unique) flag.
C30_SchemaFold ==
    LET rows == db.rows
        tables == db.tables
    IN  db.done =>
        /\ \A t \in TableNames :
              Cardinality({k \in 1..Len(tables) : tables[k].tableName = t})
                 = IF RowsOfTable(rows, t) = {} THEN 0 ELSE 1
        /\ \A k, m \in 1..Len(tables) :
              k < m => First(RowsOfTable(rows, tables[k].tableName))
                         < First(RowsOfTable(rows, tables[m].tableName))
        /\ \A k \in 1..Len(tables) :
              LET t == tables[k].tableName
                  cols == tables[k].columns
              IN  /\ \A c \in ColumnNames :
                        Cardinality({n \in 1..Len(cols) : cols[n].columnName = c})
                           = IF RowsOfColumn(rows, t, c) = {} THEN 0 ELSE 1
                  /\ \A n, o \in 1..Len(cols) :
                        n < o => First(RowsOfColumn(rows, t, cols[n].columnName))
                                   < First(RowsOfColumn(rows, t, cols[o].columnName))
                  /\ \A n \in 1..Len(cols) :
                        LET mine == RowsOfColumn(rows, t, cols[n].columnName)
                            first == rows[First(mine)]
                        IN  /\ cols[n].dataType = first.data_type
                            /\ cols[n].isNullable = (first.is_nullable = "YES")
                            /\ cols[n].defaultValue = first.column_default
                            /\ cols[n].maxLength = first.character_maximum_length
                            /\ cols[n].isPrimaryKey = (\E i \in mine : rows[i].is_primary_key)
                            /\ cols[n].isUnique = (\E i \in mine : rows[i].is_unique)

C30_Witness ==
    /\ db.done
    /\ Len(db.rows) = 3
    /\ db.rows[1].table_name = "t1" /\ db.rows[1].column_name = "c1"
    /\ db.rows[1].is_primary_key /\ db.rows[1].data_type = "integer"
    /\ db.rows[2].table_name = "t2"
    /\ db.rows[3].table_name = "t1" /\ db.rows[3].column_name = "c1"
    /\ db.rows[3].is_unique /\ db.rows[3].data_type = "varchar"
    /\ Len(db.tables) = 2
    /\ db.tables[1].tableName = "t1"
    /\ Len(db.tables[1].columns) = 1
    /\ db.tables[1].columns[1].isPrimaryKey
    /\ db.tables[1].columns[1].isUnique
    /\ db.tables[1].columns[1].dataType = "integer"

====
